---- MODULE Spec2Model ----
(***************************************************************************)
(* Verification model of the Python_Custom_WSGI server.                    *)
(*                                                                         *)
(* Four components are modelled, each with its own specification:          *)
(*   SpecH2    HTTP2Connection / HTTP2Stream        (src/features/http2.py) *)
(*   SpecWSGI  WSGIServer.handle_client, WSGIHandler (src/core)            *)
(*   SpecPipe  PipelineHandler                 (src/features/pipelining.py) *)
(*   SpecFast  ConnectionHandler                  (src/httptools_server.py) *)
(* A specification leaves the variables of the other components alone.     *)
(***************************************************************************)
EXTENDS Integers, Sequences, FiniteSets, TLC

(***************************************************************************)
(* Bounds of the model.                                                    *)
(***************************************************************************)
\* frames one HTTP/2 connection reads before the model stops feeding it
MaxFrames == 3

\* the value None of the Python code
None == "None"

(***************************************************************************)
(*                    HTTP/2 : src/src/features/http2.py                   *)
(***************************************************************************)
VARIABLES
    h2_pc,          \* position of HTTP2Connection.handle_connection
    streams,        \* HTTP2Connection.streams : stream id -> HTTP2Stream
    settings,       \* HTTP2Connection.settings
    h2_sent,        \* frames written by _send_frame, in order
    h2_preface,     \* TRUE once the connection preface bytes are written
    h2_writer_closed, \* writer.close() was called by close()
    h2_eof,         \* the reader has reached end of file
    h2_frames,      \* number of frames read so far
    h2_completions, \* per stream id: runs of process_complete_request
    h2_last,        \* the frame processed last and what _process_frame returned
    h2_goaway,      \* whether the peer's GOAWAY was read, and the streams then
    h2_calls        \* calls of the stream methods made by the embedding code

h2vars == <<h2_pc, streams, settings, h2_sent, h2_preface, h2_writer_closed,
            h2_eof, h2_frames, h2_completions, h2_last, h2_goaway, h2_calls>>

\* frame types
HEADERS == 1
DATA == 0
RST_STREAM == 3
SETTINGS == 4
GOAWAY == 7
WINDOW_UPDATE == 8

\* error codes
NO_ERROR == 0
PROTOCOL_ERROR == 1
INTERNAL_ERROR == 2

\* frame flags
ACK == 1
END_STREAM == 1
END_HEADERS == 4

\* stream ids a peer uses in the model (0 is the connection itself)
StreamIds == {1, 3}

HasFlag(flags, bit) == (flags \div bit) % 2 = 1

Max(S) == CHOOSE x \in S : \A y \in S : y <= x

\* A setting value is the 32-bit unsigned integer int.from_bytes decodes from
\* four payload bytes.  It is kept as its two 16-bit halves <<high, low>>,
\* which holds every value of the 32 bits.
U32(n) == <<n \div 65536, n % 65536>>

\* the integer of a value below 2^31
ToInt(v) == v[1] * 65536 + v[2]

\* HTTP2Connection.__init__ : the settings table
InitialSettings ==
    [header_table_size |-> U32(4096),
     enable_push |-> U32(1),
     max_concurrent_streams |-> U32(100),
     initial_window_size |-> U32(65535),
     max_frame_size |-> U32(16384),
     max_header_list_size |-> U32(65536)]

\* HTTP2Connection._setting_name
SettingName(identifier) ==
    CASE identifier = 1 -> "header_table_size"
      [] identifier = 2 -> "enable_push"
      [] identifier = 3 -> "max_concurrent_streams"
      [] identifier = 4 -> "initial_window_size"
      [] identifier = 5 -> "max_frame_size"
      [] identifier = 6 -> "max_header_list_size"
      [] OTHER -> "unknown_setting"

\* HTTP2Connection._get_setting_ids : (id, value) pairs of the known settings
GetSettingIds(s) ==
    <<<<1, s.header_table_size>>, <<2, s.enable_push>>,
      <<3, s.max_concurrent_streams>>, <<4, s.initial_window_size>>,
      <<5, s.max_frame_size>>, <<6, s.max_header_list_size>>>>

\* HTTP2Stream.__init__
NewStream(stream_id) ==
    [stream_id |-> stream_id, state |-> "idle", headers |-> None,
     data |-> <<>>, response_headers |-> None, response_data |-> None]

\* HTTP2Connection._send_frame : the frame appended to the writer
Frame(stream_id, type, flags, payload) ==
    [stream_id |-> stream_id, type |-> type, flags |-> flags, payload |-> payload]

\* HTTP2Connection._send_goaway : last stream id and error code
GoawayFrame(strs, error_code) ==
    Frame(0, GOAWAY, 0,
          <<IF DOMAIN strs = {} THEN 0 ELSE Max(DOMAIN strs), error_code>>)

\* HTTP2Connection._send_rst_stream
RstStreamFrame(stream_id, error_code) ==
    Frame(stream_id, RST_STREAM, 0, <<error_code>>)

\* the validation of one (identifier, value) pair in _process_settings
SettingValid(identifier, value) ==
    CASE identifier = 2 -> value \in {U32(0), U32(1)}
      [] identifier = 4 -> value[1] <= 32767            \* value <= 2^31 - 1
      [] identifier = 5 -> /\ value[1] > 0 \/ value[2] >= 16384  \* >= 16384
                           /\ value[1] <= 255                    \* <= 16777215
      [] OTHER -> TRUE

\* the loop of _process_settings over the pairs of the payload: every pair
\* is stored as soon as it is validated; the first invalid pair raises
\* ValueError and leaves the pairs stored before it in the table
RECURSIVE StoreSettings(_, _)
StoreSettings(s, pairs) ==
    IF pairs = <<>> THEN [settings |-> s, raised |-> FALSE]
    ELSE LET identifier == Head(pairs)[1]
             value == Head(pairs)[2]
         IN IF ~SettingValid(identifier, value)
            THEN [settings |-> s, raised |-> TRUE]
            ELSE StoreSettings(
                   [n \in DOMAIN s \cup {SettingName(identifier)} |->
                      IF n = SettingName(identifier) THEN value ELSE s[n]],
                   Tail(pairs))

\* HTTP2Connection._process_settings.  data is the payload: its pairs and the
\* number of bytes left over when its length is not a multiple of 6.
\* Result: the settings table, the frames sent, and whether ValueError rose.
SettingsPayloadLen(data) == 6 * Len(data.pairs) + data.rest

\* _process_settings with the payload check of the ACK branch left out
\* (the fault C6 is checked against)
ProcessSettingsAnyAck(s, flags, data) ==
    IF HasFlag(flags, ACK)
    THEN [settings |-> s, sent |-> <<>>, raised |-> FALSE]
    ELSE IF data.rest # 0
    THEN [settings |-> s, sent |-> <<>>, raised |-> TRUE]
    ELSE LET r == StoreSettings(s, data.pairs)
         IN [settings |-> r.settings,
             sent |-> IF r.raised THEN <<>>
                      ELSE <<Frame(0, SETTINGS, ACK, <<>>)>>,
             raised |-> r.raised]

\* _process_settings without its last line, the SETTINGS ACK
ProcessSettingsNoAck(s, flags, data) ==
    IF HasFlag(flags, ACK)
    THEN [settings |-> s, sent |-> <<>>,
          raised |-> (SettingsPayloadLen(data) > 0)]
    ELSE IF data.rest # 0
    THEN [settings |-> s, sent |-> <<>>, raised |-> TRUE]
    ELSE LET r == StoreSettings(s, data.pairs)
         IN [settings |-> r.settings, sent |-> <<>>, raised |-> r.raised]

\* HTTP2Connection._process_settings(flags, data) on the table s
ProcessSettings(s, flags, data) ==
    IF HasFlag(flags, ACK)
    THEN [settings |-> s, sent |-> <<>>,
          raised |-> (SettingsPayloadLen(data) > 0)]
    ELSE IF data.rest # 0
    THEN [settings |-> s, sent |-> <<>>, raised |-> TRUE]
    ELSE LET r == StoreSettings(s, data.pairs)
         IN [settings |-> r.settings,
             sent |-> IF r.raised THEN <<>>
                      ELSE <<Frame(0, SETTINGS, ACK, <<>>)>>,
             raised |-> r.raised]

\* HTTP2Stream.process_headers
StreamProcessHeaders(stream, headers) ==
    [stream EXCEPT !.headers = headers, !.state = "open"]

\* HTTP2Stream.process_complete_request
ProcessCompleteRequest(stream) ==
    [stream EXCEPT !.response_headers = "status200",
                   !.response_data = "OK",
                   !.state = "half_closed_remote"]

\* handle_connection up to the loop: _send_preface and _send_settings
SendPreface ==
    /\ h2_pc = "start"
    /\ h2_preface' = TRUE
    /\ h2_sent' = Append(h2_sent, Frame(0, SETTINGS, 0, GetSettingIds(settings)))
    /\ h2_pc' = "running"
    /\ UNCHANGED <<streams, settings, h2_writer_closed, h2_eof, h2_frames,
                   h2_completions, h2_last, h2_goaway, h2_calls>>

\* one turn of the loop: _read_frame returns the frame, _process_frame
\* dispatches it.  result is what _process_frame returns; the loop ignores it.
Processed(frame, result) ==
    /\ h2_frames' = h2_frames + 1
    /\ h2_last' = [kind |-> "frame", frame |-> frame, result |-> result,
                   settings_before |-> settings, sent_before |-> Len(h2_sent),
                   streams_before |-> streams]
    /\ h2_goaway' = IF frame.type = GOAWAY /\ ~h2_goaway.received
                    THEN [received |-> TRUE, streams |-> DOMAIN streams]
                    ELSE h2_goaway
    /\ UNCHANGED <<h2_pc, h2_preface, h2_writer_closed, h2_eof, h2_calls>>

CanRead ==
    /\ h2_pc = "running"
    /\ ~h2_eof
    /\ h2_frames < MaxFrames

\* _process_frame, HEADERS : _process_headers
\* block is the header block: "valid" decodes, "invalid" makes hpack raise
ProcessHeadersFrame(stream_id, flags, block) ==
    /\ CanRead
    /\ IF block = "invalid"
       THEN \* hpack's error is no ValueError or KeyError: GOAWAY(INTERNAL_ERROR)
            /\ h2_sent' = Append(h2_sent, GoawayFrame(streams, INTERNAL_ERROR))
            /\ UNCHANGED <<streams>>
            /\ Processed(Frame(stream_id, HEADERS, flags, block), FALSE)
       ELSE /\ streams' =
                 [i \in DOMAIN streams \cup {stream_id} |->
                    IF i = stream_id
                    THEN StreamProcessHeaders(
                           IF stream_id \in DOMAIN streams
                           THEN streams[stream_id] ELSE NewStream(stream_id),
                           "decoded")
                    ELSE streams[i]]
            /\ UNCHANGED <<h2_sent>>
            /\ Processed(Frame(stream_id, HEADERS, flags, block), TRUE)
    /\ UNCHANGED <<settings, h2_completions>>

\* _process_frame, DATA : _process_data
ProcessDataFrame(stream_id, flags, data) ==
    /\ CanRead
    /\ IF stream_id \notin DOMAIN streams
       THEN /\ h2_sent' = Append(h2_sent, RstStreamFrame(stream_id, PROTOCOL_ERROR))
            /\ UNCHANGED <<streams, h2_completions>>
       ELSE LET appended == [streams[stream_id] EXCEPT !.data = @ \o data]
            IN /\ IF HasFlag(flags, END_STREAM)
                  THEN /\ streams' = [streams EXCEPT ![stream_id] =
                                        ProcessCompleteRequest(appended)]
                       /\ h2_completions' =
                            [h2_completions EXCEPT ![stream_id] = @ + 1]
                  ELSE /\ streams' = [streams EXCEPT ![stream_id] = appended]
                       /\ UNCHANGED h2_completions
               /\ UNCHANGED h2_sent
    /\ Processed(Frame(stream_id, DATA, flags, data), TRUE)
    /\ UNCHANGED <<settings>>

\* _process_frame, SETTINGS : _process_settings; ValueError is answered with
\* GOAWAY(PROTOCOL_ERROR) and _process_frame returns False
ProcessSettingsFrame(flags, data) ==
    /\ CanRead
    /\ LET r == ProcessSettings(settings, flags, data)
       IN /\ settings' = r.settings
          /\ h2_sent' = IF r.raised
                        THEN Append(h2_sent, GoawayFrame(streams, PROTOCOL_ERROR))
                        ELSE h2_sent \o r.sent
          /\ Processed(Frame(0, SETTINGS, flags, data), ~r.raised)
    /\ UNCHANGED <<streams, h2_completions>>

\* _process_frame, the frame types with no effect: WINDOW_UPDATE and the
\* types without a branch return True, GOAWAY returns False
ProcessOtherFrame(type, stream_id) ==
    /\ CanRead
    /\ Processed(Frame(stream_id, type, 0, <<>>), type # GOAWAY)
    /\ UNCHANGED <<streams, settings, h2_sent, h2_completions>>

\* _read_frame returns None at end of file; _process_frame(None) returns
\* False and the loop of handle_connection reads again
ReadEOF ==
    /\ h2_pc = "running"
    /\ ~h2_eof
    /\ h2_eof' = TRUE
    /\ h2_last' = [kind |-> "none"]
    /\ UNCHANGED <<h2_pc, streams, settings, h2_sent, h2_preface,
                   h2_writer_closed, h2_frames, h2_completions, h2_goaway,
                   h2_calls>>

\* _read_frame raises: the declared length exceeds max_frame_size, or the
\* transport fails.  handle_connection catches it and calls close():
\* GOAWAY with error code 0, then writer.close()
ReadRaises(length) ==
    /\ h2_pc = "running"
    /\ ~h2_eof
    /\ length = 0 \/ length > ToInt(settings.max_frame_size)
    /\ h2_sent' = Append(h2_sent, GoawayFrame(streams, NO_ERROR))
    /\ h2_writer_closed' = TRUE
    /\ h2_pc' = "closed"
    /\ h2_last' = [kind |-> "raised", length |-> length,
                   sent_before |-> Len(h2_sent)]
    /\ UNCHANGED <<streams, settings, h2_preface, h2_eof, h2_frames,
                   h2_completions, h2_goaway, h2_calls>>

\* the SETTINGS payloads the model feeds
SettingsPayloads ==
    {[pairs |-> p, rest |-> r] :
        p \in {<<>>, <<<<2, U32(0)>>>>, <<<<2, U32(2)>>>>, <<<<5, U32(32768)>>>>,
               <<<<4, <<32768, 0>>>>>>, <<<<7, U32(9)>>, <<5, U32(1)>>>>,
               <<<<3, U32(50)>>, <<1, U32(0)>>>>},
        r \in {0, 3}}

\* declared lengths of frames _read_frame refuses (0 stands for a transport error)
RefusedLengths == {0, 20000, 16777215}

H2Next ==
    \/ SendPreface
    \/ \E s \in StreamIds, f \in {END_HEADERS, END_HEADERS + END_STREAM},
          b \in {"valid", "invalid"} : ProcessHeadersFrame(s, f, b)
    \/ \E s \in StreamIds, f \in {0, END_STREAM}, d \in {<<>>, <<"d">>} :
          ProcessDataFrame(s, f, d)
    \/ \E f \in {0, ACK}, d \in SettingsPayloads : ProcessSettingsFrame(f, d)
    \/ \E t \in {WINDOW_UPDATE, GOAWAY, RST_STREAM}, s \in {0} \cup StreamIds :
          ProcessOtherFrame(t, s)
    \/ ReadEOF
    \/ \E l \in RefusedLengths : ReadRaises(l)

(***************************************************************************)
(*  HTTP2Stream.send_response and HTTP2Stream.push_promise, the methods    *)
(*  the code embedding HTTP2Connection calls on the streams of the map     *)
(***************************************************************************)
\* calls of the stream methods the model follows on one connection
MaxCalls == 2

\* frame type PUSH_PROMISE
PUSH_PROMISE == 5

\* the promised stream ids of the model
PromisedIds == {2, 3}

\* the stream map with strs[stream_id] = stream
WithStream(strs, stream_id, stream) ==
    [i \in DOMAIN strs \cup {stream_id} |->
        IF i = stream_id THEN stream ELSE strs[i]]

\* HTTP2Stream.send_response on the stream stream_id of the map: the map
\* afterwards and the frames sent
StreamSendResponse(strs, stream_id) ==
    [streams |-> [strs EXCEPT ![stream_id].state = "closed"],
     sent |-> <<Frame(stream_id, HEADERS, END_HEADERS,
                      strs[stream_id].response_headers),
                Frame(stream_id, DATA, END_STREAM,
                      strs[stream_id].response_data)>>]

\* push_promise without the check of the state of the initiating stream
StreamPushPromiseAnyState(strs, stream_id, promised_stream_id) ==
    [raised |-> FALSE,
     streams |-> WithStream(strs, promised_stream_id,
                            [NewStream(promised_stream_id)
                               EXCEPT !.state = "reserved_remote"]),
     sent |-> <<Frame(stream_id, PUSH_PROMISE, END_HEADERS,
                      <<promised_stream_id, "encoded">>)>>]

\* HTTP2Stream.push_promise on the stream stream_id of the map: whether it
\* raised ValueError, the map afterwards and the frames sent
StreamPushPromise(strs, stream_id, promised_stream_id) ==
    IF strs[stream_id].state # "open"
    THEN [raised |-> TRUE, streams |-> strs, sent |-> <<>>]
    ELSE [raised |-> FALSE,
          streams |-> WithStream(strs, promised_stream_id,
                                 [NewStream(promised_stream_id)
                                    EXCEPT !.state = "reserved_remote"]),
          sent |-> <<Frame(stream_id, PUSH_PROMISE, END_HEADERS,
                           <<promised_stream_id, "encoded">>)>>]

\* a call of a stream method between two frames of the connection
Called(op, stream_id, raised) ==
    /\ h2_calls' = h2_calls + 1
    /\ h2_last' = [kind |-> "call", op |-> op, stream_id |-> stream_id,
                   raised |-> raised, streams_before |-> streams,
                   sent_before |-> Len(h2_sent)]
    /\ UNCHANGED <<h2_pc, settings, h2_preface, h2_writer_closed, h2_eof,
                   h2_frames, h2_completions, h2_goaway>>

\* streams[stream_id].send_response(connection)
SendResponse(stream_id) ==
    /\ h2_pc = "running"
    /\ h2_calls < MaxCalls
    /\ stream_id \in DOMAIN streams
    /\ LET r == StreamSendResponse(streams, stream_id)
       IN /\ streams' = r.streams
          /\ h2_sent' = h2_sent \o r.sent
    /\ Called("send_response", stream_id, FALSE)

\* streams[stream_id].push_promise(connection, promised_stream_id, headers)
PushPromise(stream_id, promised_stream_id) ==
    /\ h2_pc = "running"
    /\ h2_calls < MaxCalls
    /\ stream_id \in DOMAIN streams
    /\ LET r == StreamPushPromise(streams, stream_id, promised_stream_id)
       IN /\ streams' = r.streams
          /\ h2_sent' = h2_sent \o r.sent
          /\ Called("push_promise", stream_id, r.raised)

H2ApiNext ==
    \/ H2Next
    \/ \E s \in StreamIds \cup PromisedIds : SendResponse(s)
    \/ \E s \in StreamIds \cup PromisedIds, p \in PromisedIds :
           PushPromise(s, p)

(***************************************************************************)
(*        ConnectionHandler : src/src/httptools_server.py                  *)
(***************************************************************************)
VARIABLES
    ch_pc,            \* position of handle_connection / _process_wsgi_request
    keep_alive,       \* handle_connection: keep_alive
    requests_handled, \* handle_connection: requests_handled
    shutdown_event,   \* FastWSGIServer._shutdown_event is set
    ch_writer_closed, \* _handle_client closed the writer
    ch_wire,          \* what was written to the writer, in order
    ch_request,       \* request_data of the request in progress (or the last)
    ch_resp_start,    \* length of ch_wire when that request was read
    ch_outcome,       \* how _process_wsgi_request ended for that request
    w_pc,             \* position of the executor thread in _iter_app_and_push
    w_idx,            \* chunks the thread has taken from the iterable so far
    w_started,        \* status and headers start_response stored in the thread
    pending,          \* callbacks passed to loop.call_soon_threadsafe, not yet run
    q,                \* the asyncio.Queue q
    app_calls,        \* invocations of the application for the request
    close_calls,      \* calls of result.close() for the request
    ch_read           \* the last call of _read_request and what preceded it

chvars == <<ch_pc, keep_alive, requests_handled, shutdown_event,
            ch_writer_closed, ch_wire, ch_request, ch_resp_start, ch_outcome,
            w_pc, w_idx, w_started, pending, q, app_calls, close_calls,
            ch_read>>

\* ConnectionHandler.max_requests (constructor argument; 1000 by default)
max_requests == 2

\* the threshold of the first collection loop of _process_wsgi_request
EagerLimit == 65536

\* chunks an application yields: an identity and a length in bytes
Chunk(id, len) == [id |-> id, len |-> len]

\* the chunk sequences of the applications of the model
ChunkLists ==
    {<<>>,
     <<Chunk(1, 7)>>,
     <<Chunk(1, 7), Chunk(2, 26)>>,
     <<Chunk(1, 7), Chunk(2, 26), Chunk(3, 6)>>,
     <<Chunk(1, 7), Chunk(2, 0), Chunk(3, 6)>>,
     <<Chunk(1, 70000), Chunk(2, 26)>>}

\* what the applications of the model pass to start_response
AppHeads ==
    {[status |-> "200 OK", headers |-> <<>>],
     [status |-> "404 Not Found",
      headers |-> <<"Content-Type: text/plain", "X-App: 1">>]}

\* the nonlocals status and headers of _iter_app_and_push: as initialised,
\* and as start_response stores them
NotStarted == [status |-> None, headers |-> None]
StartResponse(status_line, response_headers) ==
    [status |-> status_line, headers |-> response_headers]

\* An application run: what it passes to start_response, the chunks its
\* iterable yields, where it raises
\* ("call": inside app(environ, start_response), before start_response;
\* "iter": from the iterable, after all its chunks were yielded; "none": it
\* does not), and whether the iterable has a close() method.
AppRuns ==
    {[status |-> s.status, headers |-> s.headers, chunks |-> c, fail |-> f,
      has_close |-> h] :
        s \in AppHeads, c \in ChunkLists, f \in {"none", "call", "iter"},
        h \in BOOLEAN}

\* the requests _read_request returns
FastRequests ==
    {[method |-> "GET", path |-> p, keep_alive |-> k, app |-> a] :
        p \in {"/health", "/"}, k \in BOOLEAN, a \in AppRuns}

HexDigits == <<"0", "1", "2", "3", "4", "5", "6", "7", "8", "9",
               "A", "B", "C", "D", "E", "F">>

\* f"{n:X}" : the upper-case hexadecimal digits of n
RECURSIVE Hex(_)
Hex(n) ==
    IF n < 16 THEN <<HexDigits[n + 1]>>
    ELSE Append(Hex(n \div 16), HexDigits[(n % 16) + 1])

\* the items pushed on the queue
ChunkItem(c) == [kind |-> "chunk", chunk |-> c]
DoneItem == [kind |-> "None"]
ExcItem == [kind |-> "Exception"]

\* what the handler writes
HeaderBlock ==
    [kind |-> "head", status_line |-> "200 OK",
     headers |-> <<"X-Request-ID", "Transfer-Encoding: chunked">>]
ChunkFrame(c) == [kind |-> "chunk", size |-> Hex(c.len), data |-> c]
LastChunk == [kind |-> "last-chunk", size |-> <<"0">>]
Error500 ==
    [kind |-> "response", status_line |-> "500 Internal Server Error",
     headers |-> <<"Content-Length: 21">>, body |-> "Internal Server Error"]
HealthResponse ==
    [kind |-> "response", status_line |-> "200 OK",
     headers |-> <<"Content-Length: 2">>, body |-> "OK"]

RECURSIVE SumLen(_)
SumLen(parts) ==
    IF parts = <<>> THEN 0 ELSE Head(parts).len + SumLen(Tail(parts))

\* the chunk frames written for a list of chunks: empty chunks are skipped
RECURSIVE Frames(_)
Frames(parts) ==
    IF parts = <<>> THEN <<>>
    ELSE IF Head(parts).len = 0 THEN Frames(Tail(parts))
    ELSE <<ChunkFrame(Head(parts))>> \o Frames(Tail(parts))

\* The first loop of _process_wsgi_request ("Gather a small number of
\* chunks"), run on the queue contents queue with body_parts collected so
\* far.  end is "raise" (an exception item was taken), "done" (None was
\* taken) or "break" (size limit reached or queue empty).
RECURSIVE Gather(_, _)
Gather(queue, body_parts) ==
    LET item == Head(queue)
    IN IF item.kind = "Exception"
       THEN [end |-> "raise", body_parts |-> body_parts, queue |-> Tail(queue)]
       ELSE IF item.kind = "None"
       THEN [end |-> "done", body_parts |-> body_parts, queue |-> Tail(queue)]
       ELSE LET parts == Append(body_parts, item.chunk)
            IN IF SumLen(parts) > EagerLimit \/ Tail(queue) = <<>>
               THEN [end |-> "break", body_parts |-> parts, queue |-> Tail(queue)]
               ELSE Gather(Tail(queue), parts)

\* handle_connection leaves its loop and returns; _handle_client's finally
\* closes the writer
Leave ==
    /\ ch_pc' = "closed"
    /\ ch_writer_closed' = TRUE

\* FastWSGIServer._initiate_shutdown
InitiateShutdown ==
    /\ ~shutdown_event
    /\ shutdown_event' = TRUE
    /\ UNCHANGED <<ch_read, ch_pc, keep_alive, requests_handled, ch_writer_closed,
                   ch_wire, ch_request, ch_resp_start, ch_outcome, w_pc,
                   w_idx, w_started, pending, q, app_calls, close_calls>>

\* the while condition fails, or the shutdown event is set: the loop is left
LoopExit ==
    /\ ch_pc = "top"
    /\ ~(keep_alive /\ requests_handled < max_requests) \/ shutdown_event
    /\ Leave
    /\ UNCHANGED <<ch_read, keep_alive, requests_handled, shutdown_event, ch_wire,
                   ch_request, ch_resp_start, ch_outcome, w_pc, w_idx, w_started,
                   pending, q, app_calls, close_calls>>

LoopEnteredIgnoringShutdown ==
    /\ ch_pc = "top"
    /\ keep_alive /\ requests_handled < max_requests

LoopEntered ==
    /\ ch_pc = "top"
    /\ keep_alive /\ requests_handled < max_requests
    /\ ~shutdown_event

\* ConnectionHandler.header_limit and body_limit (constructor defaults)
header_limit == 8192
body_limit == 10485760

\* What one call of _read_request receives: how the reading ends ("timeout",
\* "eof", "malformed": the parser raises HttpParserError, "complete": the
\* parser completes), the bytes read in all and the bytes of the body.
Read(end, total_read, body) ==
    [end |-> end, total_read |-> total_read, body |-> body]

\* a GET request of FastRequests on the wire: a head of 100 bytes, no body
CompleteRead == Read("complete", 100, 0)

ReadInputs ==
    {Read("timeout", 0, 0),
     Read("eof", 0, 0),
     Read("malformed", 20, 0),
     Read("complete", header_limit + body_limit + 1, body_limit),
     Read("complete", body_limit + 101, body_limit + 1),
     Read("complete", body_limit + 100, body_limit),
     CompleteRead}

\* _read_request: None, or the request data of the parser
ReadRequestData(rd) ==
    IF rd.end \in {"timeout", "eof"} THEN None
    ELSE IF rd.total_read > header_limit + body_limit THEN None
    ELSE IF rd.end = "malformed" THEN None
    ELSE IF rd.body > body_limit THEN None
    ELSE "request_data"

\* One turn of the loop begins: the while condition holds, the shutdown
\* event is not set, and _read_request is called.  ch_read records the call
\* and what preceded it: whether the last answered request of the connection
\* had a false keep-alive flag, and whether the shutdown event was set.
ReadCall ==
    [calls |-> ch_read.calls + 1,
     result |-> "pending",
     read |-> CompleteRead,
     wire_before |-> Len(ch_wire),
     after_close |-> requests_handled > 0 /\ ~ch_request.keep_alive,
     after_shutdown |-> shutdown_event]

BeginRead ==
    /\ LoopEntered
    /\ ch_pc' = "reading"
    /\ ch_read' = ReadCall
    /\ UNCHANGED <<keep_alive, requests_handled, shutdown_event,
                   ch_writer_closed, ch_wire, ch_request, ch_resp_start,
                   ch_outcome, w_pc, w_idx, w_started, pending, q, app_calls,
                   close_calls>>

\* _read_request returns: what it received and what it returned
ReadReturns(rd) ==
    [ch_read EXCEPT
        !.result = IF ReadRequestData(rd) = None THEN "nothing" ELSE "request",
        !.read = rd]

\* _read_request returns None (timeout, end of file, size limit, malformed
\* request): break
ReadNothing(rd) ==
    /\ ch_pc = "reading"
    /\ ReadRequestData(rd) = None
    /\ ch_read' = ReadReturns(rd)
    /\ Leave
    /\ UNCHANGED <<keep_alive, requests_handled, shutdown_event, ch_wire,
                   ch_request, ch_resp_start, ch_outcome, w_pc, w_idx, w_started,
                   pending, q, app_calls, close_calls>>

\* a request for /health is answered without the application; continue
ServeHealth(request) ==
    /\ ch_pc = "reading"
    /\ request.path = "/health"
    /\ ch_read' = ReadReturns(CompleteRead)
    /\ ch_pc' = "top"
    /\ ch_request' = request
    /\ ch_resp_start' = Len(ch_wire)
    /\ ch_outcome' = "health"
    /\ ch_wire' = Append(ch_wire, HealthResponse)
    /\ requests_handled' = requests_handled + 1
    /\ app_calls' = 0
    /\ close_calls' = 0
    /\ UNCHANGED <<keep_alive, shutdown_event, ch_writer_closed,
                   w_pc, w_idx, w_started, pending, q>>

\* any other request: _process_wsgi_request creates the queue and hands
\* _iter_app_and_push to the executor, then awaits q.get()
StartWsgiRequest(request) ==
    /\ ch_pc = "reading"
    /\ request.path # "/health"
    /\ ch_read' = ReadReturns(CompleteRead)
    /\ ch_request' = request
    /\ ch_resp_start' = Len(ch_wire)
    /\ ch_outcome' = "running"
    /\ q' = <<>>
    /\ pending' = <<>>
    /\ w_pc' = "call"
    /\ w_idx' = 0
    /\ w_started' = NotStarted
    /\ app_calls' = 0
    /\ close_calls' = 0
    /\ ch_pc' = "first_get"
    /\ UNCHANGED <<keep_alive, requests_handled, shutdown_event,
                   ch_writer_closed, ch_wire>>

\* executor thread: result = self.app(environ, start_response)
WorkerCallApp ==
    /\ w_pc = "call"
    /\ app_calls' = app_calls + 1
    /\ IF ch_request.app.fail = "call"
       THEN /\ pending' = Append(pending, ExcItem)
            /\ w_pc' = "done"
            /\ UNCHANGED w_started
       ELSE /\ w_pc' = "iter"
            /\ w_started' = StartResponse(ch_request.app.status,
                                          ch_request.app.headers)
            /\ UNCHANGED pending
    /\ UNCHANGED <<ch_read, ch_pc, keep_alive, requests_handled, shutdown_event,
                   ch_writer_closed, ch_wire, ch_request, ch_resp_start,
                   ch_outcome, w_idx, q, close_calls>>

\* result.close() calls after the iteration of the executor thread ended:
\* the call follows the for loop inside the try block, so an exception
\* raised by the iterable skips it
WorkerCloseCalls(app, calls) ==
    IF app.has_close /\ app.fail # "iter" THEN calls + 1 ELSE calls

\* executor thread: one turn of "for data in result", and what follows the loop
WorkerNext ==
    /\ w_pc = "iter"
    /\ IF w_idx < Len(ch_request.app.chunks)
       THEN /\ pending' = Append(pending,
                                 ChunkItem(ch_request.app.chunks[w_idx + 1]))
            /\ w_idx' = w_idx + 1
            /\ UNCHANGED <<w_pc, close_calls>>
       ELSE /\ pending' = Append(pending,
                                 IF ch_request.app.fail = "iter"
                                 THEN ExcItem ELSE DoneItem)
            /\ close_calls' = WorkerCloseCalls(ch_request.app, close_calls)
            /\ w_pc' = "done"
            /\ UNCHANGED w_idx
    /\ UNCHANGED <<ch_read, ch_pc, keep_alive, requests_handled, shutdown_event,
                   ch_writer_closed, ch_wire, ch_request, ch_resp_start,
                   ch_outcome, w_started, q, app_calls>>

\* the event loop runs a callback scheduled by call_soon_threadsafe:
\* q.put_nowait(item).  The loop runs callbacks while the handler is
\* suspended in an await; every action of the handler ends in one.
Deliver ==
    /\ pending # <<>>
    /\ ch_pc \in {"first_get", "stream_get"}
    /\ q' = Append(q, Head(pending))
    /\ pending' = Tail(pending)
    /\ UNCHANGED <<ch_read, ch_pc, keep_alive, requests_handled, shutdown_event,
                   ch_writer_closed, ch_wire, ch_request, ch_resp_start,
                   ch_outcome, w_pc, w_idx, w_started, app_calls, close_calls>>

\* _process_wsgi_request returned: the rest of the loop body of handle_connection
Returned ==
    /\ keep_alive' = ch_request.keep_alive
    /\ requests_handled' = requests_handled + 1
    /\ ch_pc' = "top"
    /\ UNCHANGED ch_writer_closed

\* q.get() of the first loop returns: the loop gathers what is queued.  An
\* exception item is raised to handle_connection, which answers 500 and
\* breaks.  Otherwise the header block and the gathered parts are written
\* (the writes do not read the queue, so they are taken in one step).
FirstLoop ==
    /\ ch_pc = "first_get"
    /\ q # <<>>
    /\ LET g == Gather(q, <<>>)
       IN /\ q' = g.queue
          /\ IF g.end = "raise"
             THEN /\ ch_wire' = Append(ch_wire, Error500)
                  /\ ch_outcome' = "raised"
                  /\ Leave
                  /\ UNCHANGED <<keep_alive, requests_handled>>
             ELSE /\ ch_wire' = ch_wire \o <<HeaderBlock>> \o Frames(g.body_parts)
                  /\ ch_outcome' = IF g.end = "done" THEN "gathered_all"
                                   ELSE "streaming"
                  /\ ch_pc' = "stream_get"
                  /\ UNCHANGED <<keep_alive, requests_handled, ch_writer_closed>>
    /\ UNCHANGED <<ch_read, shutdown_event, ch_request, ch_resp_start, w_pc, w_idx, w_started,
                   pending, app_calls, close_calls>>

\* q.get() of the second loop returns an item.  An exception item and None
\* both break the loop; the final zero-length chunk is written after it and
\* _process_wsgi_request returns normally
StreamItem ==
    /\ ch_pc = "stream_get"
    /\ q # <<>>
    /\ q' = Tail(q)
    /\ LET item == Head(q)
       IN IF item.kind \in {"Exception", "None"}
          THEN /\ ch_wire' = Append(ch_wire, LastChunk)
               /\ ch_outcome' = IF item.kind = "Exception"
                                THEN "exception_while_streaming"
                                ELSE "completed"
               /\ Returned
          ELSE /\ ch_wire' = ch_wire \o Frames(<<item.chunk>>)
               /\ UNCHANGED <<ch_pc, keep_alive, requests_handled,
                              ch_writer_closed, ch_outcome>>
    /\ UNCHANGED <<ch_read, shutdown_event, ch_request, ch_resp_start, w_pc, w_idx, w_started,
                   pending, app_calls, close_calls>>

FastNext ==
    \/ InitiateShutdown
    \/ LoopExit
    \/ BeginRead
    \/ \E rd \in ReadInputs : ReadNothing(rd)
    \/ \E r \in FastRequests : ServeHealth(r)
    \/ \E r \in FastRequests : StartWsgiRequest(r)
    \/ WorkerCallApp
    \/ WorkerNext
    \/ Deliver
    \/ FirstLoop
    \/ StreamItem

(***************************************************************************)
(*   WSGIServer.handle_client : src/src/core/server_core.py                *)
(*   WSGIHandler              : src/src/core/request_handler.py            *)
(***************************************************************************)
VARIABLES
    ws_pc,            \* position of handle_client
    ws_shutdown,      \* WSGIServer._shutdown_event is set
    ws_active,        \* the connection task is in _active_connections
    ws_writer_closed, \* writer.close() was called
    ws_wire,          \* the responses that reached the client, in order
    ws_headers,       \* WSGIHandler._headers : headers of the last parsed request
    ws_reads,         \* calls of handle_request on this connection
    ws_last           \* the last call of handle_request: input and outcome

wsvars == <<ws_pc, ws_shutdown, ws_active, ws_writer_closed, ws_wire,
            ws_headers, ws_reads, ws_last>>

\* calls of handle_request the model follows on one connection
MaxReads == 2

\* WSGIHandler.VALID_METHODS
VALID_METHODS == {"GET", "POST", "PUT", "DELETE", "HEAD", "OPTIONS", "PATCH"}

\* WSGIHandler.MAX_REQUEST_SIZE
MAX_REQUEST_SIZE == 1048576

\* str.lower() on the header names and values of the model
Lower(str) ==
    CASE str = "Connection" -> "connection"
      [] str = "Content-Type" -> "content-type"
      [] str = "Content-Length" -> "content-length"
      [] str = "Keep-Alive" -> "keep-alive"
      [] str = "Close" -> "close"
      [] OTHER -> str

\* name.upper().replace("-", "_") of _build_environ, with the HTTP_ prefix
EnvironKey(name) ==
    CASE Lower(name) = "connection" -> "HTTP_CONNECTION"
      [] Lower(name) = "host" -> "HTTP_HOST"
      [] Lower(name) = "content-length" -> "HTTP_CONTENT_LENGTH"
      [] Lower(name) = "content-type" -> "HTTP_CONTENT_TYPE"
      [] OTHER -> "HTTP_OTHER"

\* dict.get on a header dict kept as a sequence of <<name, value>> pairs
RECURSIVE Get(_, _, _)
Get(headers, name, default) ==
    IF headers = <<>> THEN default
    ELSE IF Head(headers)[1] = name THEN Head(headers)[2]
    ELSE Get(Tail(headers), name, default)

\* environ.get(key, default) for the HTTP_ keys _build_environ derives
RECURSIVE EnvironGet(_, _, _)
EnvironGet(headers, key, default) ==
    IF headers = <<>> THEN default
    ELSE IF EnvironKey(headers[Len(headers)][1]) = key
    THEN headers[Len(headers)][2]
    ELSE EnvironGet(SubSeq(headers, 1, Len(headers) - 1), key, default)

\* A request as the client sends it: request line, header lines, the length
\* of the header block up to and including its terminator (head_len), the
\* body bytes that arrive in the same read as the end of the header block
\* (body_first) and the body bytes that arrive after it, before the client
\* stops sending (body_later).
Request(m, t, v, h, n, b1, b2) ==
    [kind |-> "request", method |-> m, target |-> t, version |-> v,
     headers |-> h, head_len |-> n, body_first |-> b1, body_later |-> b2]

\* requests without a body
PlainRequests ==
    {Request(m, "/", v, h, 40, <<>>, <<>>) :
        m \in {"GET", "HEAD", "OPTIONS", "BREW"},
        v \in {"HTTP/1.1", "HTTP/1.0"},
        h \in {<<>>,
               <<<<"Connection", "keep-alive">>>>,
               <<<<"Connection", "close">>>>,
               <<<<"connection", "Keep-Alive">>>>,
               <<<<"connection", "close">>>>}}

\* requests for a target validate_request refuses
TargetRequests ==
    {Request(m, t, "HTTP/1.1", <<>>, 40, <<>>, <<>>) :
        m \in {"GET", "HEAD"}, t \in {"/../etc/passwd", "index.html"}}

\* the Content-Length header lines of the model
LengthHeaders ==
    {<<>>,
     <<<<"Content-Length", "0">>>>,
     <<<<"Content-Length", "5">>>>,
     <<<<"content-length", "5">>>>,
     <<<<"Content-Length", "999">>>>,
     <<<<"Content-Length", "invalid_value">>>>,
     <<<<"Content-Length", "1048536">>>>,
     <<<<"Content-Length", "1048537">>>>}

\* the bodies of the model, as <<body_first, body_later>>
Bodies ==
    {<<<<>>, <<>>>>,
     <<<<"h", "e", "l", "l", "o">>, <<>>>>,
     <<<<"h", "e">>, <<"l", "l", "o">>>>,
     <<<<"h", "e", "l", "l", "o", "!", "!">>, <<>>>>}

\* requests with a declared length or a body
BodyRequests ==
    {Request(m, "/", "HTTP/1.1", l \o t, n, b[1], b[2]) :
        m \in {"POST", "PUT", "PATCH", "GET"},
        l \in LengthHeaders,
        t \in {<<>>, <<<<"Content-Type", "text/plain">>>>},
        n \in {40, 41},
        b \in Bodies}

\* the requests a client sends
WsRequests == PlainRequests \cup TargetRequests \cup BodyRequests

\* What a read of handle_client's loop finds: a request without body, end
\* of file, or silence until the keep-alive timeout of handle_client
WsInputs == PlainRequests \cup {[kind |-> "eof"], [kind |-> "timeout"]}

\* the exception messages of the applications of the model
ExceptionMessages == {"db password hunter2", "boom"}

\* One run of the application: the headers it passes to start_response, the
\* chunks its iterable yields, where it raises ("call": inside
\* app(environ, start_response); "iter": from the iterable after its chunks),
\* the message of the exception, and whether the iterable has close().
WsAppRuns ==
    LET all == {[status |-> "200 OK", headers |-> h, chunks |-> c, fail |-> f,
                 message |-> m, has_close |-> k] :
                   h \in {<<>>, <<<<"Connection", "keep-alive">>>>,
                          <<<<"Content-Type", "text/html">>>>},
                   c \in {<<>>, <<"chunk1", "chunk2">>},
                   f \in {"none", "call", "iter"},
                   m \in ExceptionMessages,
                   k \in BOOLEAN}
    IN \* fields that cannot influence the run are held fixed
       {a \in all :
          /\ a.fail # "call" => a.message = "boom"
          /\ a.fail = "call" => a.has_close /\ a.chunks = <<>> /\ a.headers = <<>>}

\* a response as written: status line, header lines, body
Response(status_line, headers, body) ==
    [status_line |-> status_line, headers |-> headers, body |-> body]

\* WSGIHandler._build_error_response
BuildErrorResponse(code, message) ==
    Response(IF code = 400 THEN "HTTP/1.1 400 Bad Request"
             ELSE "HTTP/1.1 500 Internal Server Error",
             <<<<"Content-Type", "text/plain">>,
               <<"Content-Length", Len(message)>>,
               <<"Connection", "close">>>>,
             <<message>>)

\* apply_cors_headers with the default CORSConfig and no environ
ApplyCorsHeaders(headers) ==
    headers \o <<<<"Access-Control-Allow-Origin", "*">>,
                 <<"Access-Control-Allow-Methods", "GET,POST,OPTIONS">>,
                 <<"Access-Control-Allow-Headers", "Content-Type">>,
                 <<"Access-Control-Max-Age", "86400">>>>

ShouldKeepAliveAnyVersion(request) ==
    Lower(EnvironGet(request.headers, "HTTP_CONNECTION", "")) # "close"

\* WSGIHandler._should_keep_alive
ShouldKeepAlive(request) ==
    LET connection == Lower(EnvironGet(request.headers, "HTTP_CONNECTION", ""))
    IN IF connection = "close" THEN FALSE
       ELSE IF request.version = "HTTP/1.0" THEN connection = "keep-alive"
       ELSE TRUE

HasHeader(headers, lower_name) ==
    \E i \in 1..Len(headers) : Lower(headers[i][1]) = lower_name

\* WSGIHandler._prepare_headers
PrepareHeaders(headers, request) ==
    LET with_type == IF HasHeader(headers, "content-type") THEN headers
                     ELSE Append(headers, <<"Content-Type", "text/plain">>)
        with_conn == IF HasHeader(headers, "connection") THEN with_type
                     ELSE Append(with_type,
                                 <<"Connection",
                                   IF ShouldKeepAlive(request)
                                   THEN "keep-alive" ELSE "close">>)
    IN ApplyCorsHeaders(with_conn)

\* WSGIHandler._call_wsgi_app : the response it returns, the number of
\* application invocations and of result.close() calls
CallWsgiApp(request, app) ==
    IF app.fail = "call"
    THEN [response |-> BuildErrorResponse(500, app.message),
          app_calls |-> 1, close_calls |-> 0]
    ELSE [response |-> Response("HTTP/1.1 " \o app.status,
                                PrepareHeaders(app.headers, request),
                                app.chunks),
          app_calls |-> 1,
          close_calls |-> IF app.has_close THEN 1 ELSE 0]

\* WSGIHandler._strip_response_body
StripResponseBody(response) == [response EXCEPT !.body = <<>>]

\* WSGIHandler._handle_cors_preflight
CorsPreflight == Response("HTTP/1.1 204 No Content", ApplyCorsHeaders(<<>>), <<>>)

\* int(str) on the header values of the model; ok is FALSE for ValueError
ParseInt(str) ==
    CASE str = "0" -> [ok |-> TRUE, value |-> 0]
      [] str = "5" -> [ok |-> TRUE, value |-> 5]
      [] str = "999" -> [ok |-> TRUE, value |-> 999]
      [] str = "1048536" -> [ok |-> TRUE, value |-> 1048536]
      [] str = "1048537" -> [ok |-> TRUE, value |-> 1048537]
      [] OTHER -> [ok |-> FALSE, value |-> 0]

\* _read_request: the value of the first header line that starts with
\* "content-length:" when lowered, None when there is no such line
RECURSIVE DeclaredLength(_)
DeclaredLength(headers) ==
    IF headers = <<>> THEN None
    ELSE IF Lower(Head(headers)[1]) = "content-length" THEN Head(headers)[2]
    ELSE DeclaredLength(Tail(headers))

\* the first n items of seq (none when n is not positive)
Take(seq, n) ==
    SubSeq(seq, 1, IF n < Len(seq) THEN n ELSE Len(seq))

\* _read_request without the check of the total size against MAX_REQUEST_SIZE
ReadRequestUnlimited(input) ==
    LET declared == DeclaredLength(input.headers)
        content_length == IF declared = None THEN [ok |-> TRUE, value |-> 0]
                          ELSE ParseInt(declared)
        body_so_far == input.body_first
        remaining == content_length.value - Len(body_so_far)
    IN IF ~content_length.ok
       THEN [error |-> "Invalid Content-Length header", body |-> <<>>]
       ELSE [error |-> None,
             body |-> IF content_length.value > 0
                      THEN body_so_far \o Take(input.body_later, remaining)
                      ELSE body_so_far]

\* WSGIHandler._read_request on a request whose header block arrived: the
\* WSGIError it raises, or the body bytes of the request data it returns
ReadRequest(input) ==
    LET declared == DeclaredLength(input.headers)
        content_length == IF declared = None THEN [ok |-> TRUE, value |-> 0]
                          ELSE ParseInt(declared)
        body_so_far == input.body_first
        remaining == content_length.value - Len(body_so_far)
    IN IF ~content_length.ok
       THEN [error |-> "Invalid Content-Length header", body |-> <<>>]
       ELSE IF /\ content_length.value > 0
               /\ input.head_len + content_length.value > MAX_REQUEST_SIZE
       THEN [error |-> "Request body too large", body |-> <<>>]
       ELSE [error |-> None,
             body |-> IF content_length.value > 0
                      THEN body_so_far \o Take(input.body_later, remaining)
                      ELSE body_so_far]

\* WSGIHandler._parse_request: the Content-Length validation for methods
\* with a body; the WSGIError message, or None
ParseRequest(input, body) ==
    IF input.method \in {"POST", "PUT", "PATCH"}
    THEN LET length == ParseInt(Get(input.headers, "Content-Length", "0"))
         IN IF ~length.ok \/ length.value < 0 THEN "Invalid Content-Length"
            ELSE IF length.value # Len(body) THEN "Content-Length mismatch"
            ELSE None
    ELSE None

\* the HTTP_ entries _build_environ adds for the remaining headers
RECURSIVE HttpKeys(_)
HttpKeys(headers) ==
    IF headers = <<>> THEN {}
    ELSE (IF Head(headers)[1] \in {"Content-Type", "Content-Length"} THEN {}
          ELSE {<<EnvironKey(Head(headers)[1]), Head(headers)[2]>>})
         \cup HttpKeys(Tail(headers))

\* WSGIHandler._build_environ
BuildEnviron(input, body) ==
    [REQUEST_METHOD |-> input.method,
     PATH_INFO |-> input.target,
     CONTENT_TYPE |-> Get(input.headers, "Content-Type", ""),
     CONTENT_LENGTH |-> Get(input.headers, "Content-Length", "0"),
     SERVER_PROTOCOL |-> input.version,
     wsgi_input |-> body,
     http |-> HttpKeys(input.headers)]

\* the environ field of a request that did not reach the application
NoEnviron == [REQUEST_METHOD |-> None]

\* validate_request: the error message, or None
ValidateRequest(environ) ==
    LET method == environ.REQUEST_METHOD
        content_length == ParseInt(environ.CONTENT_LENGTH)
        path == environ.PATH_INFO
    IN IF method \notin {"GET", "POST", "PUT", "DELETE", "OPTIONS", "HEAD", "PATCH"}
       THEN "Invalid request method"
       ELSE IF method \in {"POST", "PUT", "PATCH"} /\ ~content_length.ok
       THEN "Invalid content length header"
       ELSE IF method \in {"POST", "PUT", "PATCH"} /\ content_length.value < 0
       THEN "Invalid content length"
       ELSE IF /\ method \in {"POST", "PUT", "PATCH"}
               /\ content_length.value > 10 * 1024 * 1024
       THEN "Content too large"
       ELSE IF method \in {"POST", "PUT"} /\ environ.CONTENT_TYPE = ""
       THEN "Missing content type"
       ELSE IF path = "index.html" THEN "Invalid request path"
       ELSE IF path = "/../etc/passwd" THEN "Path traversal not allowed"
       ELSE None

\* what handle_request reports when it answered with _send_error(400, ...)
Rejected(message, headers, path) ==
    [response |-> BuildErrorResponse(400, message), headers |-> headers,
     app_calls |-> 0, close_calls |-> 0, path |-> path, environ |-> NoEnviron]

\* WSGIHandler.handle_request on one input: the response it writes, the
\* headers it leaves in self._headers, the calls it made and the environ
\* the application got
HandleRequest(input, app, old_headers) ==
    IF input.kind = "eof"
    THEN Rejected("Incomplete request headers", old_headers, "read_error")
    ELSE LET read == ReadRequest(input)
             parse_error == ParseRequest(input, read.body)
             environ == BuildEnviron(input, read.body)
             error == ValidateRequest(environ)
         IN IF read.error # None
            THEN Rejected(read.error, old_headers, "read_error")
            ELSE IF parse_error # None
            THEN Rejected(parse_error, input.headers, "parse_error")
            ELSE IF input.method \notin VALID_METHODS
            THEN Rejected("Invalid method", input.headers, "invalid_method")
            ELSE IF input.method = "OPTIONS"
            THEN [response |-> CorsPreflight,
                  headers |-> input.headers, app_calls |-> 0,
                  close_calls |-> 0, path |-> "preflight",
                  environ |-> NoEnviron]
            ELSE IF error # None
            THEN Rejected(error, input.headers, "invalid")
            ELSE LET r == CallWsgiApp(input, app)
                 IN [response |-> IF input.method = "HEAD"
                                  THEN StripResponseBody(r.response)
                                  ELSE r.response,
                     headers |-> input.headers,
                     app_calls |-> r.app_calls, close_calls |-> r.close_calls,
                     path |-> IF app.fail = "call" THEN "app_raised" ELSE "app",
                     environ |-> environ]

Forbidden403 ==
    Response("HTTP/1.1 403 Forbidden",
             <<<<"Content-Type", "text/plain">>, <<"Content-Length", 9>>>>,
             <<"Forbidden">>)

TooMany429 ==
    Response("HTTP/1.1 429 Too Many Requests",
             <<<<"Content-Type", "text/plain">>, <<"Content-Length", 20>>>>,
             <<"Too many requests">>)

\* WSGIServer.shutdown sets the shutdown event
WsShutdown ==
    /\ ~ws_shutdown
    /\ ws_shutdown' = TRUE
    /\ UNCHANGED <<ws_pc, ws_active, ws_writer_closed, ws_wire, ws_headers,
                   ws_reads, ws_last>>

\* handle_client up to the admission gate: the shutdown check, the IP filter
\* and the rate limiter, each of which closes the connection
Accept(ip_allowed, rate_allowed) ==
    /\ ws_pc = "accept"
    /\ IF ws_shutdown
       THEN /\ ws_pc' = "closed" /\ ws_writer_closed' = TRUE
            /\ UNCHANGED <<ws_wire, ws_active>>
       ELSE IF ~ip_allowed
       THEN /\ ws_wire' = Append(ws_wire, Forbidden403)
            /\ ws_pc' = "closed" /\ ws_writer_closed' = TRUE
            /\ UNCHANGED ws_active
       ELSE IF ~rate_allowed
       THEN /\ ws_wire' = Append(ws_wire, TooMany429)
            /\ ws_pc' = "closed" /\ ws_writer_closed' = TRUE
            /\ UNCHANGED ws_active
       ELSE /\ ws_pc' = "serving"
            /\ ws_active' = TRUE
            /\ UNCHANGED <<ws_wire, ws_writer_closed>>
    /\ UNCHANGED <<ws_shutdown, ws_headers, ws_reads, ws_last>>

\* the finally clause of handle_client
WsFinally ==
    /\ ws_pc' = "closed"
    /\ ws_active' = FALSE
    /\ ws_writer_closed' = TRUE

\* the while condition of handle_client fails: the shutdown event is set
WsLoopExit ==
    /\ ws_pc = "serving"
    /\ ws_shutdown
    /\ WsFinally
    /\ UNCHANGED <<ws_shutdown, ws_wire, ws_headers, ws_reads, ws_last>>

\* One turn of the loop of handle_client: handle_request under the keep-alive
\* timeout, then the check of the Connection header.
\*  - handle_request closes the writer in its finally clause, whatever happened.
\*  - On a writer that is already closed, asyncio discards what is written
\*    and drain() raises ConnectionResetError, which ends the loop.
\*  - The timeout cancels handle_request; nothing is written.
ServeRequest(input, app) ==
    /\ ws_pc = "serving"
    /\ ~ws_shutdown
    /\ ws_reads < MaxReads
    /\ ws_reads' = ws_reads + 1
    /\ IF input.kind = "timeout"
       THEN /\ ws_last' = [kind |-> "timeout"]
            /\ WsFinally
            /\ UNCHANGED <<ws_wire, ws_headers>>
       ELSE LET r == HandleRequest(input, app, ws_headers)
                sent == ~ws_writer_closed
            IN /\ ws_headers' = r.headers
               /\ ws_wire' = IF sent THEN Append(ws_wire, r.response) ELSE ws_wire
               /\ ws_last' = [kind |-> "handled", input |-> input, app |-> app,
                              path |-> r.path, response |-> r.response,
                              sent |-> sent, app_calls |-> r.app_calls,
                              close_calls |-> r.close_calls,
                              environ |-> r.environ]
               /\ IF sent /\ Lower(Get(r.headers, "Connection", "")) = "keep-alive"
                  THEN /\ ws_writer_closed' = TRUE
                       /\ UNCHANGED <<ws_pc, ws_active>>
                  ELSE WsFinally
    /\ UNCHANGED ws_shutdown

WsNext ==
    \/ WsShutdown
    \/ \E i \in BOOLEAN, r \in BOOLEAN : Accept(i, r)
    \/ WsLoopExit
    \/ \E i \in WsInputs, a \in WsAppRuns : ServeRequest(i, a)

(***************************************************************************)
(*   WSGIHandler.handle_request called once on a fresh reader and writer   *)
(*   src/src/core/request_handler.py                                       *)
(***************************************************************************)
VARIABLES
    hr_pc,            \* "ready" before the call, "done" after it returned
    hr_wire,          \* what the writer received
    hr_writer_closed, \* writer.close() was called
    hr_last           \* the call: input, application run and outcome

hrvars == <<hr_pc, hr_wire, hr_writer_closed, hr_last>>

\* what the reader holds: a request, or nothing before end of file
HrInputs == WsRequests \cup {[kind |-> "eof"]}

\* handle_request from its first line to the end of its finally clause
HandleOnce(input, app) ==
    /\ hr_pc = "ready"
    /\ hr_pc' = "done"
    /\ LET r == HandleRequest(input, app, <<>>)
       IN /\ hr_wire' = Append(hr_wire, r.response)
          /\ hr_last' = [kind |-> "handled", input |-> input, app |-> app,
                         path |-> r.path, response |-> r.response,
                         app_calls |-> r.app_calls,
                         close_calls |-> r.close_calls, environ |-> r.environ]
    /\ hr_writer_closed' = TRUE

HandlerNext == \E i \in HrInputs, a \in WsAppRuns : HandleOnce(i, a)

(***************************************************************************)
(*            PipelineHandler : src/src/features/pipelining.py             *)
(***************************************************************************)
VARIABLES
    pl_pc,        \* position of handle_pipeline: "reading" or "done"
    pl_wire,      \* the responses written, in order
    pl_received,  \* complete requests the client has sent so far
    pl_bursts,    \* reads that returned data so far
    pl_fragment   \* the last read ended with the first bytes of a request
                  \* whose remaining bytes the client has yet to send

plvars == <<pl_pc, pl_wire, pl_received, pl_bursts, pl_fragment>>

\* _read_pipelined_requests: max_pipeline_requests
max_pipeline_requests == 20

\* complete requests one read of the model returns at most
MaxBurst == 21

\* reads with data the model follows on one connection
MaxBursts == 2

Min(a, b) == IF a < b THEN a ELSE b

\* The requests of one read burst that carries n complete requests, the
\* client's requests being numbered in the order sent.  bad is the position
\* in the burst of a request with a malformed request line (0: none).
Burst(first, n, bad) ==
    [i \in 1..n |-> [id |-> first + i - 1, malformed |-> (i = bad)]]

\* _read_pipelined_requests on a burst of complete requests without bodies:
\* the while loop takes requests off the buffer until max_pipeline_requests
\* are collected; what is left in the local buffer is dropped on return
ReadPipelinedRequests(burst) ==
    SubSeq(burst, 1, Min(Len(burst), max_pipeline_requests))

\* _process_request without a handler class: the fallback response
ProcessRequest(request) ==
    IF request.malformed
    THEN [id |-> request.id, status_line |-> "HTTP/1.1 400 Bad Request",
          headers |-> <<"Content-Type: text/plain", "Content-Length: 11">>,
          body |-> "Bad Request"]
    ELSE [id |-> request.id, status_line |-> "HTTP/1.1 200 OK",
          headers |-> <<"Content-Type: application/json",
                        "Content-Length: 33", "Connection: keep-alive">>,
          body |-> "Pipelined response"]

\* The bytes up to the first header terminator of a read that follows a
\* read which ended inside a request: the rest of that request.  The buffer
\* that held its first bytes is local to the earlier call, so the rest is
\* taken for a request of its own, one without a proper request line; it is
\* no request the client sent (id 0).
Remainder == [id |-> 0, malformed |-> TRUE]

\* one turn of the loop of handle_pipeline on a read that returned n
\* complete requests, followed (tail) by the first bytes of one more:
\* read, process all, write all
HandlePipeline(n, bad, tail) ==
    /\ pl_pc = "reading"
    /\ pl_bursts < MaxBursts
    /\ LET completed == IF pl_fragment THEN 1 ELSE 0
           data == (IF pl_fragment THEN <<Remainder>> ELSE <<>>)
                   \o Burst(pl_received + completed + 1, n, bad)
           requests == ReadPipelinedRequests(data)
           responses == [i \in 1..Len(requests) |-> ProcessRequest(requests[i])]
       IN /\ pl_wire' = pl_wire \o responses
          /\ pl_received' = pl_received + completed + n
    /\ pl_fragment' = tail
    /\ pl_bursts' = pl_bursts + 1
    /\ UNCHANGED pl_pc

\* the read returns no data: requests is empty and the loop is left
PipelineEOF ==
    /\ pl_pc = "reading"
    /\ pl_pc' = "done"
    /\ UNCHANGED <<pl_wire, pl_received, pl_bursts, pl_fragment>>

PipeNext ==
    \/ \E n \in 1..MaxBurst, bad \in {0, 1}, tail \in BOOLEAN :
           HandlePipeline(n, bad, tail)
    \/ PipelineEOF

(***************************************************************************)
(*           KeepAliveHandler : src/src/features/keepalive.py              *)
(***************************************************************************)
VARIABLES
    ka_pc,               \* position of handle_connection
    ka_reader,           \* the object the local variable reader refers to
    ka_stream,           \* the requests buffered unread in the connection's reader
    ka_eof,              \* the client closed: feed_eof() on the connection's reader
    ka_sent,             \* requests the client has sent so far
    ka_requests_handled, \* handle_connection: requests_handled
    ka_served,           \* the requests handler.handle_request was called for
    ka_writer_closed,    \* writer.close() was called
    ka_exit              \* why the loop was left

kavars == <<ka_pc, ka_reader, ka_stream, ka_eof, ka_sent, ka_requests_handled,
            ka_served, ka_writer_closed, ka_exit>>

\* KeepAliveHandler.max_requests (constructor argument; 1000 by default)
ka_max_requests == 2

\* requests the client of the model sends at most
MaxSent == 4

\* The reader handle_connection is called with: the StreamReader of the
\* connection, which asyncio gives no attribute _buffer_size, or an object
\* of the caller that has this attribute.
ConnectionReader(has_buffer_size) ==
    [kind |-> "connection", has_buffer_size |-> has_buffer_size,
     buffer |-> <<>>]

\* "new_reader = asyncio.StreamReader()" fed with the data at hand: it is
\* not connected to the transport, so it gets no further data and no end
\* of file, and it has no attribute _buffer_size
NewReader(data) ==
    [kind |-> "new", has_buffer_size |-> FALSE, buffer |-> data]

\* the unread requests and the end-of-file flag of the object reader refers to
ReaderBuffer == IF ka_reader.kind = "connection" THEN ka_stream
                ELSE ka_reader.buffer
ReaderEof == ka_reader.kind = "connection" /\ ka_eof

\* a server calls handle_connection(reader, writer)
KaConnect(has_buffer_size) ==
    /\ ka_pc = "idle"
    /\ ka_pc' = "top"
    /\ ka_reader' = ConnectionReader(has_buffer_size)
    /\ UNCHANGED <<ka_stream, ka_eof, ka_sent, ka_requests_handled, ka_served,
                   ka_writer_closed, ka_exit>>

\* the client sends its next request
KaClientSends ==
    /\ ka_pc = "top"
    /\ ~ka_eof
    /\ ka_sent < MaxSent
    /\ ka_sent' = ka_sent + 1
    /\ ka_stream' = Append(ka_stream, ka_sent + 1)
    /\ UNCHANGED <<ka_pc, ka_reader, ka_eof, ka_requests_handled, ka_served,
                   ka_writer_closed, ka_exit>>

\* the client closes its side of the connection
KaClientCloses ==
    /\ ka_pc = "top"
    /\ ~ka_eof
    /\ ka_eof' = TRUE
    /\ UNCHANGED <<ka_pc, ka_reader, ka_stream, ka_sent, ka_requests_handled,
                   ka_served, ka_writer_closed, ka_exit>>

\* the loop is left for the given reason; the writer is closed after it
KaLeave(reason) ==
    /\ ka_pc' = "closed"
    /\ ka_exit' = reason
    /\ ka_writer_closed' = TRUE

\* "while requests_handled < self.max_requests" fails
KaLoopExit ==
    /\ ka_pc = "top"
    /\ ka_requests_handled >= ka_max_requests
    /\ KaLeave("max_requests")
    /\ UNCHANGED <<ka_reader, ka_stream, ka_eof, ka_sent, ka_requests_handled,
                   ka_served>>

\* reader.at_eof(), or reader.read(1) returns b"": break
KaEndOfInput ==
    /\ ka_pc = "top"
    /\ ka_requests_handled < ka_max_requests
    /\ ReaderEof /\ ReaderBuffer = <<>>
    /\ KaLeave("client_closed")
    /\ UNCHANGED <<ka_reader, ka_stream, ka_eof, ka_sent, ka_requests_handled,
                   ka_served>>

\* wait_for(reader.read(1), idle_timeout) times out: break
KaIdleTimeout ==
    /\ ka_pc = "top"
    /\ ka_requests_handled < ka_max_requests
    /\ ~ReaderEof /\ ReaderBuffer = <<>>
    /\ KaLeave("idle_timeout")
    /\ UNCHANGED <<ka_reader, ka_stream, ka_eof, ka_sent, ka_requests_handled,
                   ka_served>>

\* One turn of the loop with data at hand: reader.read(1) returns the first
\* byte, then "reader.read(reader._buffer_size)" is evaluated.  Without the
\* attribute it raises AttributeError, which "except Exception" answers with
\* break.  With it, the data at hand goes to a new reader, the local
\* variable reader is rebound to it, and handler.handle_request reads one
\* request from it; raises tells whether handle_request raises.
KaTurn(raises) ==
    /\ ka_pc = "top"
    /\ ka_requests_handled < ka_max_requests
    /\ ReaderBuffer # <<>>
    /\ IF ~ka_reader.has_buffer_size
       THEN /\ KaLeave("attribute_error")
            /\ UNCHANGED <<ka_reader, ka_stream, ka_requests_handled,
                           ka_served>>
       ELSE /\ ka_stream' = IF ka_reader.kind = "connection" THEN <<>>
                            ELSE ka_stream
            /\ ka_reader' = NewReader(Tail(ReaderBuffer))
            /\ ka_served' = Append(ka_served, Head(ReaderBuffer))
            /\ IF raises
               THEN /\ KaLeave("handler_error")
                    /\ UNCHANGED ka_requests_handled
               ELSE /\ ka_requests_handled' = ka_requests_handled + 1
                    /\ UNCHANGED <<ka_pc, ka_exit, ka_writer_closed>>
    /\ UNCHANGED <<ka_eof, ka_sent>>

\* the task is cancelled while it awaits the read or handle_request:
\* CancelledError is no Exception, so it passes the except clauses, and the
\* statements that close the writer follow the loop without a finally
KaCancelled ==
    /\ ka_pc = "top"
    /\ ka_pc' = "cancelled"
    /\ ka_exit' = "cancelled"
    /\ UNCHANGED <<ka_reader, ka_stream, ka_eof, ka_sent, ka_requests_handled,
                   ka_served, ka_writer_closed>>

KeepAliveNext ==
    \/ \E b \in BOOLEAN : KaConnect(b)
    \/ KaClientSends
    \/ KaClientCloses
    \/ KaLoopExit
    \/ KaEndOfInput
    \/ KaIdleTimeout
    \/ \E raises \in BOOLEAN : KaTurn(raises)
    \/ KaCancelled

(***************************************************************************)
(*  The start_response closures, called by the application any number of   *)
(*  times: WSGIHandler._call_wsgi_app (src/src/core/request_handler.py)    *)
(*  and ConnectionHandler._process_wsgi_request (src/src/httptools_server  *)
(*  .py)                                                                   *)
(***************************************************************************)
VARIABLES
    sr_handler,   \* whose closure the application was given: "wsgi", "fast"
    sr_pc,        \* "app": the application runs; "done": the response head
                  \* is decided
    sr_started,   \* the nonlocals status and headers of the closure
    sr_calls,     \* calls of start_response made by the application
    sr_first,     \* what the first call passed
    sr_last,      \* the last call: its exc_info and whether it raised
    sr_response   \* the status and headers the response is built from

srvars == <<sr_handler, sr_pc, sr_started, sr_calls, sr_first, sr_last,
            sr_response>>

\* calls of start_response the model follows in one application run
MaxStartCalls == 3

\* what the applications of this section pass to start_response
StartHeads ==
    AppHeads \cup {[status |-> "302 Found", headers |-> <<"Location: /">>]}

\* the nonlocals of _call_wsgi_app as initialised: status = '', headers = []
WsgiNotStarted == [status |-> "", headers |-> <<>>]

\* start_response of _call_wsgi_app: with exc_info it re-raises the
\* exception, otherwise it stores what it is given
WsgiStartResponse(started, status_line, response_headers, exc_info) ==
    IF exc_info
    THEN [started |-> started, raised |-> TRUE]
    ELSE [started |-> [status |-> status_line, headers |-> response_headers],
          raised |-> FALSE]

\* start_response of _process_wsgi_request: with exc_info it re-raises only
\* "if headers_sent", and headers_sent is False from start to end; it stores
\* what it is given
FastStartResponse(started, status_line, response_headers, exc_info) ==
    [started |-> StartResponse(status_line, response_headers),
     raised |-> FALSE]

\* the status and headers the response is built from: _call_wsgi_app takes
\* the nonlocals, _process_wsgi_request writes "200 OK" and its own header
\* block whatever the nonlocals hold
ResponseHead(handler, started) ==
    IF handler = "wsgi"
    THEN [status |-> started.status, headers |-> started.headers]
    ELSE [status |-> "200 OK", headers |-> <<>>]

\* the head of the 500 response _call_wsgi_app builds when the application
\* raises
ErrorHead == [status |-> "500 Internal Server Error", headers |-> <<>>]

\* the application calls start_response(status_line, response_headers) or
\* start_response(status_line, response_headers, exc_info); an exception the
\* closure raises is not caught by the application
CallStartResponse(head, exc_info) ==
    /\ sr_pc = "app"
    /\ sr_calls < MaxStartCalls
    /\ LET r == IF sr_handler = "wsgi"
                THEN WsgiStartResponse(sr_started, head.status, head.headers,
                                       exc_info)
                ELSE FastStartResponse(sr_started, head.status, head.headers,
                                       exc_info)
       IN /\ sr_started' = r.started
          /\ sr_last' = [kind |-> "call", exc_info |-> exc_info,
                         raised |-> r.raised]
          /\ IF r.raised
             THEN /\ sr_pc' = "done"
                  /\ sr_response' = ErrorHead
             ELSE UNCHANGED <<sr_pc, sr_response>>
    /\ sr_calls' = sr_calls + 1
    /\ sr_first' = IF sr_calls = 0 THEN head ELSE sr_first
    /\ UNCHANGED sr_handler

\* the application returns its iterable and the response head is built
AppReturns ==
    /\ sr_pc = "app"
    /\ sr_pc' = "done"
    /\ sr_response' = ResponseHead(sr_handler, sr_started)
    /\ UNCHANGED <<sr_handler, sr_started, sr_calls, sr_first, sr_last>>

\* the next request: the closure and its nonlocals are created anew
NextRequest(handler) ==
    /\ sr_pc = "done"
    /\ sr_handler' = handler
    /\ sr_pc' = "app"
    /\ sr_started' = IF handler = "wsgi" THEN WsgiNotStarted ELSE NotStarted
    /\ sr_calls' = 0
    /\ sr_first' = NotStarted
    /\ sr_last' = [kind |-> "none"]
    /\ sr_response' = NotStarted

StartResponseNext ==
    \/ \E head \in StartHeads, exc_info \in BOOLEAN :
           CallStartResponse(head, exc_info)
    \/ AppReturns
    \/ \E handler \in {"wsgi", "fast"} : NextRequest(handler)

(***************************************************************************)
(*   CORSConfig and apply_cors_headers : src/src/features/security.py      *)
(*   A string that the code takes apart (an origin) or puts together (a    *)
(*   joined list) is the sequence of its pieces; every header value of     *)
(*   this section is such a sequence.                                      *)
(***************************************************************************)
VARIABLES
    cors_last    \* the last call of apply_cors_headers: arguments and result

corsvars == <<cors_last>>

\* the origin "*"
AnyOrigin == <<"*">>

\* the origins of the model: "https://example.com", "https://app.example.com",
\* "https://evil.org", the pattern "*.example.com" and the empty string
Origins ==
    {<<"https://", "example.com">>, <<"https://", "app", ".example.com">>,
     <<"https://", "evil.org">>, <<"*", ".example.com">>, <<>>}

\* the values of allowed_origins given to CORSConfig (<<>> is None)
AllowedOriginLists ==
    {<<>>, <<AnyOrigin>>,
     <<<<"https://", "example.com">>>>,
     <<<<"https://", "example.com">>, <<"https://", "evil.org">>>>,
     <<<<"*", ".example.com">>>>}

\* the values of allowed_methods given to CORSConfig (<<>> is None)
AllowedMethodLists == {<<>>, <<"GET">>, <<"GET", "PUT">>}

\* CORSConfig(allowed_origins, allowed_methods, allow_credentials) with
\* __post_init__: a list that is None or empty gets its default
CORSConfig(allowed_origins, allowed_methods, allow_credentials) ==
    [allowed_origins |-> IF allowed_origins = <<>> THEN <<AnyOrigin>>
                         ELSE allowed_origins,
     allowed_methods |-> IF allowed_methods = <<>>
                         THEN <<"GET", "POST", "OPTIONS">>
                         ELSE allowed_methods,
     allowed_headers |-> <<"Content-Type">>,
     allow_credentials |-> allow_credentials,
     max_age |-> 86400]

\* ','.join(items)
RECURSIVE Join(_)
Join(items) ==
    IF Len(items) <= 1 THEN items
    ELSE <<Head(items), ",">> \o Join(Tail(items))

\* str(n) for the values of max_age
Str(n) == IF n = 86400 THEN <<"86400">> ELSE <<"0">>

\* text.endswith(suffix)
EndsWith(text, suffix) ==
    /\ Len(suffix) <= Len(text)
    /\ SubSeq(text, Len(text) - Len(suffix) + 1, Len(text)) = suffix

\* allowed_origin.startswith('*.')
StartsWithStarDot(allowed_origin) ==
    /\ Len(allowed_origin) >= 2
    /\ allowed_origin[1] = "*"
    /\ allowed_origin[2] \in {".example.com"}

\* the for/else loop of apply_cors_headers over allowed_origins
OriginMatches(request_origin, allowed_origins) ==
    \E i \in 1..Len(allowed_origins) :
        \/ request_origin = allowed_origins[i]
        \/ /\ StartsWithStarDot(allowed_origins[i])
           /\ EndsWith(request_origin, Tail(allowed_origins[i]))

\* the environ arguments of the model: a dict, where the empty dict also
\* stands for None (the code tests "if environ")
CorsEnvirons ==
    {[k \in {} |-> <<>>], [k \in {"REQUEST_METHOD"} |-> <<"GET">>]}
    \cup {[k \in {"HTTP_ORIGIN"} |-> o] : o \in Origins}

\* the value of Access-Control-Allow-Origin apply_cors_headers chooses
OriginValue(cors_config, environ) ==
    IF /\ DOMAIN environ # {}
       /\ cors_config.allowed_origins # <<>>
       /\ cors_config.allowed_origins # <<AnyOrigin>>
       /\ "HTTP_ORIGIN" \in DOMAIN environ
       /\ environ["HTTP_ORIGIN"] # <<>>
    THEN IF OriginMatches(environ["HTTP_ORIGIN"], cors_config.allowed_origins)
         THEN environ["HTTP_ORIGIN"]
         ELSE <<"null">>
    ELSE AnyOrigin

\* apply_cors_headers(headers, cors_config, environ)
ApplyCorsHeadersFor(headers, cors_config, environ) ==
    LET origin_value == OriginValue(cors_config, environ)
    IN headers
       \o <<<<"Access-Control-Allow-Origin", origin_value>>,
            <<"Access-Control-Allow-Methods", Join(cors_config.allowed_methods)>>,
            <<"Access-Control-Allow-Headers", Join(cors_config.allowed_headers)>>,
            <<"Access-Control-Max-Age", Str(cors_config.max_age)>>>>
       \o (IF cors_config.allow_credentials /\ origin_value # AnyOrigin
           THEN <<<<"Access-Control-Allow-Credentials", <<"true">>>>>>
           ELSE <<>>)
       \o (IF origin_value # AnyOrigin THEN <<<<"Vary", <<"Origin">>>>>>
           ELSE <<>>)

\* a call of apply_cors_headers
ApplyCors(headers, allowed_origins, allowed_methods, credentials, environ) ==
    LET cors_config == CORSConfig(allowed_origins, allowed_methods,
                                  credentials)
    IN cors_last' = [kind |-> "call",
                     headers |-> headers,
                     given_origins |-> allowed_origins,
                     cors_config |-> cors_config,
                     environ |-> environ,
                     result |-> ApplyCorsHeadersFor(headers, cors_config,
                                                    environ)]

CorsNext ==
    \E headers \in {<<>>, <<<<"Content-Type", <<"text/plain">>>>>>},
       allowed_origins \in AllowedOriginLists,
       allowed_methods \in AllowedMethodLists,
       allow_credentials \in BOOLEAN,
       environ \in CorsEnvirons :
        ApplyCors(headers, allowed_origins, allowed_methods,
                  allow_credentials, environ)

(***************************************************************************)
(*        IPFilter : src/src/features/security.py                          *)
(***************************************************************************)
VARIABLES
    ip_filter,   \* the IPFilter object: its two sets and its two lists
    ipf_adds,    \* calls of add_to_whitelist / add_to_blacklist so far
    ipf_last     \* the last call of is_allowed: argument, filter and result

ipfvars == <<ip_filter, ipf_adds, ipf_last>>

\* calls of the add methods the model follows
MaxAdds == 3

\* the strings of the model that ipaddress.ip_address accepts
AddressStrings ==
    {"10.0.0.1", "10.0.0.2", "10.1.0.1", "2001:db8::1", "2001:DB8:0::1"}

\* the strings with a "/" that IPv4Network / IPv6Network (strict=False) accept
NetworkStrings == {"10.0.0.7/24", "2001:db8::/32"}

\* strings that are neither
InvalidStrings == {"bogus", "10.0.0.0/33"}

\* ipaddress.ip_address(str): the address object, written in its compressed
\* form; ok is FALSE for ValueError
IpAddress(str) ==
    CASE str = "2001:DB8:0::1" -> [ok |-> TRUE, address |-> "2001:db8::1"]
      [] str \in AddressStrings -> [ok |-> TRUE, address |-> str]
      [] OTHER -> [ok |-> FALSE, address |-> None]

\* IPv4Network(str, strict=False), then IPv6Network(str, strict=False): the
\* network object (host bits masked off), ok is FALSE when both raise
IpNetwork(str) ==
    CASE str = "10.0.0.7/24" -> [ok |-> TRUE, network |-> "10.0.0.0/24"]
      [] str = "2001:db8::/32" -> [ok |-> TRUE, network |-> "2001:db8::/32"]
      [] OTHER -> [ok |-> FALSE, network |-> None]

\* ip_obj in network
InNetwork(address, network) ==
    \/ network = "10.0.0.0/24" /\ address \in {"10.0.0.1", "10.0.0.2"}
    \/ network = "2001:db8::/32" /\ address = "2001:db8::1"

\* "/" in ip_or_cidr
HasSlash(str) == str \in NetworkStrings \cup {"10.0.0.0/33"}

\* IPFilter.__init__
NewIPFilter ==
    [whitelist_ips |-> {}, blacklist_ips |-> {},
     whitelist_networks |-> <<>>, blacklist_networks |-> <<>>]

\* IPFilter.add_to_whitelist: the filter afterwards (unchanged when the
\* method raises ValueError)
AddToWhitelist(f, ip_or_cidr) ==
    IF HasSlash(ip_or_cidr)
    THEN IF IpNetwork(ip_or_cidr).ok
         THEN [f EXCEPT !.whitelist_networks =
                           Append(@, IpNetwork(ip_or_cidr).network)]
         ELSE f
    ELSE IF IpAddress(ip_or_cidr).ok
         THEN [f EXCEPT !.whitelist_ips = @ \cup {IpAddress(ip_or_cidr).address}]
         ELSE f

\* IPFilter.add_to_blacklist
AddToBlacklist(f, ip_or_cidr) ==
    IF HasSlash(ip_or_cidr)
    THEN IF IpNetwork(ip_or_cidr).ok
         THEN [f EXCEPT !.blacklist_networks =
                           Append(@, IpNetwork(ip_or_cidr).network)]
         ELSE f
    ELSE IF IpAddress(ip_or_cidr).ok
         THEN [f EXCEPT !.blacklist_ips = @ \cup {IpAddress(ip_or_cidr).address}]
         ELSE f


\* IPFilter.is_allowed without the whitelist branch
IPFilterIsAllowedBlacklistOnly(f, ip) ==
    LET ip_obj == IpAddress(ip)
    IN IF ~ip_obj.ok THEN FALSE
       ELSE IF ip_obj.address \in f.blacklist_ips THEN FALSE
       ELSE IF \E i \in 1..Len(f.blacklist_networks) :
                  InNetwork(ip_obj.address, f.blacklist_networks[i])
       THEN FALSE
       ELSE TRUE

\* IPFilter.is_allowed
IPFilterIsAllowed(f, ip) ==
    LET ip_obj == IpAddress(ip)
    IN IF ~ip_obj.ok THEN FALSE
       ELSE IF f.whitelist_ips # {} \/ f.whitelist_networks # <<>>
       THEN IF ip_obj.address \in f.whitelist_ips THEN TRUE
            ELSE IF \E i \in 1..Len(f.whitelist_networks) :
                       InNetwork(ip_obj.address, f.whitelist_networks[i])
            THEN TRUE
            ELSE FALSE
       ELSE IF ip_obj.address \in f.blacklist_ips THEN FALSE
       ELSE IF \E i \in 1..Len(f.blacklist_networks) :
                  InNetwork(ip_obj.address, f.blacklist_networks[i])
       THEN FALSE
       ELSE TRUE

\* a call of add_to_whitelist
FilterAddWhite(ip_or_cidr) ==
    /\ ipf_adds < MaxAdds
    /\ ipf_adds' = ipf_adds + 1
    /\ ip_filter' = AddToWhitelist(ip_filter, ip_or_cidr)
    /\ UNCHANGED ipf_last

\* a call of add_to_blacklist
FilterAddBlack(ip_or_cidr) ==
    /\ ipf_adds < MaxAdds
    /\ ipf_adds' = ipf_adds + 1
    /\ ip_filter' = AddToBlacklist(ip_filter, ip_or_cidr)
    /\ UNCHANGED ipf_last

\* a call of is_allowed
FilterIsAllowed(ip) ==
    /\ ipf_last' = [kind |-> "call", ip |-> ip, filter |-> ip_filter,
                    result |-> IPFilterIsAllowed(ip_filter, ip)]
    /\ UNCHANGED <<ip_filter, ipf_adds>>

FilterNext ==
    \/ \E e \in AddressStrings \cup NetworkStrings \cup InvalidStrings :
          FilterAddWhite(e)
    \/ \E e \in AddressStrings \cup NetworkStrings \cup InvalidStrings :
          FilterAddBlack(e)
    \/ \E ip \in AddressStrings \cup InvalidStrings : FilterIsAllowed(ip)

(***************************************************************************)
(*        RateLimiter : src/src/features/security.py                       *)
(***************************************************************************)
VARIABLES
    rate_limiter,  \* the RateLimiter object
    rl_now,        \* what time.time() returns
    rl_seen        \* per address: the calls of is_allowed made for it since
                   \* it was first seen, while no time has elapsed

rlvars == <<rate_limiter, rl_now, rl_seen>>

\* time.time() runs from 0 to MaxTime in the model
MaxTime == 6

\* calls for one address the model follows while no time elapses, beyond burst
ExtraCalls == 2

\* Tokens are floats in the code.  The model counts them in units of
\* 1 / TokenUnit token and time in ticks; a rate is given in units per tick.
TokenUnit == 2

\* the addresses whose connections the limiter sees
ClientIPs == {"10.0.0.1", "10.0.0.2", "10.1.0.1"}

\* RateLimiter.__init__(rate, burst, cleanup_interval, max_entries) at time now
NewRateLimiter(rate, burst, cleanup_interval, max_entries, now) ==
    [rate |-> rate, burst |-> burst,
     tokens |-> [k \in {} |-> 0], last_update |-> [k \in {} |-> 0],
     cleanup_interval |-> cleanup_interval, last_cleanup |-> now,
     max_entries |-> max_entries]

\* a dict without the keys in gone
Without(dict, gone) == [k \in DOMAIN dict \ gone |-> dict[k]]

\* a dict with dict[key] = value
With(dict, key, value) ==
    [k \in DOMAIN dict \cup {key} |-> IF k = key THEN value ELSE dict[k]]

\* the n entries of last_update with the smallest times (sorted(...)[:n])
RECURSIVE Oldest(_, _)
Oldest(last_update, n) ==
    IF n <= 0 \/ DOMAIN last_update = {} THEN {}
    ELSE LET first == CHOOSE k \in DOMAIN last_update :
                         \A j \in DOMAIN last_update :
                             last_update[k] <= last_update[j]
         IN {first} \cup Oldest(Without(last_update, {first}), n - 1)

\* RateLimiter._cleanup.  expiration_time = 3 * burst / rate; in the units of
\* the model "now - last_update > expiration_time" is
\* (now - last_update) * rate > 3 * burst * TokenUnit.
Cleanup(rl, now) ==
    LET expired_ips == {k \in DOMAIN rl.last_update :
                          (now - rl.last_update[k]) * rl.rate
                              > 3 * rl.burst * TokenUnit}
        tokens == Without(rl.tokens, expired_ips)
        last_update == Without(rl.last_update, expired_ips)
        n == Cardinality(DOMAIN tokens)
        oldest_ips == IF n > rl.max_entries
                      THEN Oldest(last_update, n - rl.max_entries) ELSE {}
    IN [rl EXCEPT !.tokens = Without(tokens, oldest_ips),
                  !.last_update = Without(last_update, oldest_ips),
                  !.last_cleanup = now]


\* the "Initialize or update tokens" step of is_allowed
Refill(rl, ip, now) ==
    IF ip \notin DOMAIN rl.tokens
    THEN [rl EXCEPT !.tokens = With(@, ip, rl.burst * TokenUnit),
                    !.last_update = With(@, ip, now)]
    ELSE LET elapsed == now - rl.last_update[ip]
             time_passed == IF elapsed < 0 THEN 0
                            ELSE IF elapsed > rl.cleanup_interval
                            THEN rl.cleanup_interval
                            ELSE elapsed
             refilled == rl.tokens[ip] + time_passed * rl.rate
         IN [rl EXCEPT !.tokens[ip] = IF rl.burst * TokenUnit < refilled
                                      THEN rl.burst * TokenUnit ELSE refilled,
                       !.last_update[ip] = now]

\* the "Check if enough tokens and consume one" step of is_allowed
Consume(rl, ip) ==
    IF rl.tokens[ip] >= TokenUnit
    THEN [limiter |-> [rl EXCEPT !.tokens[ip] = @ - TokenUnit],
          result |-> TRUE]
    ELSE [limiter |-> rl, result |-> FALSE]

\* is_allowed with a refill that does not cap the tokens at burst
RateLimiterIsAllowedUncapped(rl, ip, now) ==
    LET cleaned == IF now - rl.last_cleanup > rl.cleanup_interval
                   THEN Cleanup(rl, now) ELSE rl
        refilled == IF ip \notin DOMAIN cleaned.tokens
                    THEN Refill(cleaned, ip, now)
                    ELSE [cleaned EXCEPT
                            !.tokens[ip] = @ + (now - cleaned.last_update[ip])
                                                 * cleaned.rate,
                            !.last_update[ip] = now]
    IN Consume(refilled, ip)

\* RateLimiter.is_allowed(ip) at time now: the limiter afterwards and the
\* value returned
RateLimiterIsAllowed(rl, ip, now) ==
    LET cleaned == IF now - rl.last_cleanup > rl.cleanup_interval
                   THEN Cleanup(rl, now) ELSE rl
        at_capacity == /\ ip \notin DOMAIN cleaned.tokens
                       /\ Cardinality(DOMAIN cleaned.tokens) >= cleaned.max_entries
        emergency == IF at_capacity THEN Cleanup(cleaned, now) ELSE cleaned
    IN IF /\ at_capacity
          /\ Cardinality(DOMAIN emergency.tokens) >= emergency.max_entries
       THEN [limiter |-> emergency, result |-> FALSE]
       ELSE Consume(Refill(emergency, ip, now), ip)

\* the record of the calls made for an address since it was first seen
NotSeen == [calls |-> 0, tracked |-> FALSE, last |-> FALSE]

\* a call of is_allowed(ip)
LimiterIsAllowed(ip) ==
    LET r == RateLimiterIsAllowed(rate_limiter, ip, rl_now)
        first == ip \notin DOMAIN rate_limiter.tokens
    IN /\ first \/ rl_seen[ip].calls = 0
             \/ rl_seen[ip].calls < rate_limiter.burst + ExtraCalls
       /\ rate_limiter' = r.limiter
       /\ rl_seen' = [rl_seen EXCEPT ![ip] =
             IF first
             THEN [calls |-> 1, tracked |-> ip \in DOMAIN r.limiter.tokens,
                   last |-> r.result]
             ELSE IF @.calls > 0
             THEN [@ EXCEPT !.calls = @ + 1, !.last = r.result]
             ELSE @]
       /\ UNCHANGED rl_now

\* time passes, or the system clock is set back: the calls that follow are
\* no longer calls without time elapsing
ClockMoves(to) ==
    /\ to # rl_now
    /\ rl_now' = to
    /\ rl_seen' = [ip \in ClientIPs |-> NotSeen]
    /\ UNCHANGED rate_limiter

LimiterNext ==
    \/ \E ip \in ClientIPs : LimiterIsAllowed(ip)
    \/ \E to \in {rl_now - 1, rl_now + 1} \cap 0..MaxTime : ClockMoves(to)

(***************************************************************************)
(*   WSGIServer with several connections : src/src/core/server_core.py     *)
(*   self.ip_filter and self.rate_limiter are the variables ip_filter and  *)
(*   rate_limiter above                                                    *)
(***************************************************************************)
VARIABLES
    sv_started,       \* WSGIServer.__init__ has run
    sv_rate_limit,    \* the rate_limit argument was given (self.rate_limiter
                      \* is not None)
    sv_pc,            \* per connection: position of its handle_client task
    sv_ip,            \* per connection: the peer address
    sv_outcome,       \* per connection: how handle_client got past its checks
    sv_wire,          \* per connection: the responses handle_client wrote
    sv_closed,        \* per connection: writer.close() was called
    sv_limited,       \* per connection: calls of rate_limiter.is_allowed made
    sv_app_calls,     \* per connection: invocations of the application
    sv_permits,       \* the value of _request_semaphore
    sv_active,        \* _active_connections
    sv_shutdown_event,\* _shutdown_event is set
    sv_shutdown_pc,   \* the call of shutdown(): "idle", "raised", "returned"
    sv_gate           \* per connection: the shutdown event was set when it
                      \* passed the gate; handle_request was called for it

svvars == <<sv_started, sv_rate_limit, sv_pc, sv_ip, sv_outcome, sv_wire,
            sv_closed, sv_limited, sv_app_calls, sv_permits, sv_active,
            sv_shutdown_event, sv_shutdown_pc, sv_gate>>

\* WSGIServer.max_connections (constructor argument; 1000 by default)
max_connections == 2

\* the connections of the model: one more than the gate admits
Conns == 1..(max_connections + 1)

\* request cycles the model follows on one connection
MaxCycles == 1

\* the ip_whitelist and ip_blacklist arguments of the model
FilterConfigs ==
    {[whitelist |-> <<>>, blacklist |-> <<>>],
     [whitelist |-> <<>>, blacklist |-> <<"10.1.0.1">>],
     [whitelist |-> <<"10.0.0.7/24">>, blacklist |-> <<"10.0.0.1">>]}

\* the peer addresses of the model
PeerIPs == {"10.0.0.1", "10.1.0.1"}

\* "for ip in ip_whitelist: self.ip_filter.add_to_whitelist(ip)"
RECURSIVE AddAllWhite(_, _)
AddAllWhite(f, ips) ==
    IF ips = <<>> THEN f
    ELSE AddAllWhite(AddToWhitelist(f, Head(ips)), Tail(ips))

\* "for ip in ip_blacklist: self.ip_filter.add_to_blacklist(ip)"
RECURSIVE AddAllBlack(_, _)
AddAllBlack(f, ips) ==
    IF ips = <<>> THEN f
    ELSE AddAllBlack(AddToBlacklist(f, Head(ips)), Tail(ips))

\* WSGIServer.__init__ : the security features and the admission gate.  The
\* limiter of the model has burst 1 and the default cleanup_interval and
\* max_entries.
Construct(cfg, rate_limit) ==
    /\ ~sv_started
    /\ sv_started' = TRUE
    /\ sv_rate_limit' = rate_limit
    /\ rate_limiter' = NewRateLimiter(3, 1, 3600, 10000, rl_now)
    /\ ip_filter' = AddAllBlack(AddAllWhite(NewIPFilter, cfg.whitelist),
                                cfg.blacklist)
    /\ sv_permits' = max_connections
    /\ UNCHANGED <<sv_pc, sv_ip, sv_outcome, sv_wire, sv_closed, sv_limited,
                   sv_app_calls, sv_active, sv_shutdown_event, sv_shutdown_pc,
                   sv_gate, rl_now, rl_seen, ipf_adds, ipf_last>>


\* the checks of handle_client with the rate limiter consulted before the
\* IP filter
AdmissionRateFirst(filter, has_limiter, limiter, ip, now) ==
    LET r == IF has_limiter THEN RateLimiterIsAllowed(limiter, ip, now)
             ELSE [limiter |-> limiter, result |-> TRUE]
    IN [outcome |-> IF ~r.result THEN "429"
                    ELSE IF ~IPFilterIsAllowed(filter, ip) THEN "403"
                    ELSE "gate",
        limiter |-> r.limiter,
        limited |-> IF has_limiter THEN 1 ELSE 0]

\* the checks of handle_client between the shutdown check and the gate:
\* "if not self.ip_filter.is_allowed(client_ip)", then
\* "if self.rate_limiter and not self.rate_limiter.is_allowed(client_ip)".
\* The outcome, the limiter afterwards and the number of calls of
\* rate_limiter.is_allowed.
Admission(filter, has_limiter, limiter, ip, now) ==
    IF ~IPFilterIsAllowed(filter, ip)
    THEN [outcome |-> "403", limiter |-> limiter, limited |-> 0]
    ELSE IF has_limiter
    THEN LET r == RateLimiterIsAllowed(limiter, ip, now)
         IN [outcome |-> IF r.result THEN "gate" ELSE "429",
             limiter |-> r.limiter, limited |-> 1]
    ELSE [outcome |-> "gate", limiter |-> limiter, limited |-> 0]

\* a semaphore that never makes a caller wait
SemaphoreNeverLocked(value, waiters) == FALSE

\* asyncio.Semaphore.locked(): no permit is left, or somebody waits for one
SemaphoreLocked(value, waiters) == value = 0 \/ waiters # {}

\* the connections waiting in "async with self._request_semaphore"
Waiters == {c \in Conns : sv_pc[c] = "waiting"}

\* the body of "async with self._request_semaphore" begins: the permit is
\* taken and the task is added to _active_connections
EnterGate(c) ==
    /\ sv_permits' = sv_permits - 1
    /\ sv_gate' = [sv_gate EXCEPT ![c].late = sv_shutdown_event]
    /\ sv_active' = sv_active \cup {c}
    /\ sv_pc' = [sv_pc EXCEPT ![c] = "serving"]

\* handle_client for a new connection from ip, up to its first await that
\* can block: the shutdown check, the IP filter, the rate limiter, the gate
HandleClient(c, ip) ==
    /\ sv_started
    /\ sv_pc[c] = "idle"
    /\ sv_ip' = [sv_ip EXCEPT ![c] = ip]
    /\ IF sv_shutdown_event
       THEN /\ sv_outcome' = [sv_outcome EXCEPT ![c] = "shutdown"]
            /\ sv_closed' = [sv_closed EXCEPT ![c] = TRUE]
            /\ sv_pc' = [sv_pc EXCEPT ![c] = "closed"]
            /\ UNCHANGED <<sv_wire, sv_limited, rate_limiter, sv_permits,
                           sv_active, sv_gate>>
       ELSE LET a == Admission(ip_filter, sv_rate_limit, rate_limiter, ip,
                               rl_now)
            IN /\ sv_outcome' = [sv_outcome EXCEPT ![c] = a.outcome]
               /\ rate_limiter' = a.limiter
               /\ sv_limited' = [sv_limited EXCEPT ![c] = a.limited]
               /\ IF a.outcome = "403"
                  THEN /\ sv_wire' = [sv_wire EXCEPT
                                         ![c] = Append(@, Forbidden403)]
                       /\ sv_closed' = [sv_closed EXCEPT ![c] = TRUE]
                       /\ sv_pc' = [sv_pc EXCEPT ![c] = "closed"]
                       /\ UNCHANGED <<sv_permits, sv_active, sv_gate>>
                  ELSE IF a.outcome = "429"
                  THEN /\ sv_wire' = [sv_wire EXCEPT
                                         ![c] = Append(@, TooMany429)]
                       /\ sv_closed' = [sv_closed EXCEPT ![c] = TRUE]
                       /\ sv_pc' = [sv_pc EXCEPT ![c] = "closed"]
                       /\ UNCHANGED <<sv_permits, sv_active, sv_gate>>
                  ELSE IF SemaphoreLocked(sv_permits, Waiters)
                  THEN /\ sv_pc' = [sv_pc EXCEPT ![c] = "waiting"]
                       /\ UNCHANGED <<sv_wire, sv_closed, sv_permits,
                                      sv_active, sv_gate>>
                  ELSE /\ EnterGate(c)
                       /\ UNCHANGED <<sv_wire, sv_closed>>
    /\ UNCHANGED <<sv_started, sv_rate_limit, sv_app_calls,
                   sv_shutdown_event, sv_shutdown_pc, ip_filter,
                   rl_now, rl_seen, ipf_adds, ipf_last>>

\* a connection that waited at the gate gets a permit
Admitted(c) ==
    /\ sv_pc[c] = "waiting"
    /\ sv_permits > 0
    /\ EnterGate(c)
    /\ UNCHANGED <<sv_started, sv_rate_limit, sv_ip, sv_outcome, sv_wire,
                   sv_closed, sv_limited, sv_app_calls, sv_shutdown_event,
                   sv_shutdown_pc, ipfvars, rlvars>>

\* the finally clause of handle_client up to "await writer.wait_closed()"
ConnFinally(c) ==
    /\ sv_active' = sv_active \ {c}
    /\ sv_closed' = [sv_closed EXCEPT ![c] = TRUE]
    /\ sv_pc' = [sv_pc EXCEPT ![c] = "closing"]

LoopGoesOnRegardless == TRUE

\* "while not self._shutdown_event.is_set()": the loop condition
LoopGoesOn == ~sv_shutdown_event

\* the loop condition fails
ConnLoopExit(c) ==
    /\ sv_pc[c] = "serving"
    /\ sv_shutdown_event
    /\ ConnFinally(c)
    /\ UNCHANGED <<sv_started, sv_rate_limit, sv_ip, sv_outcome, sv_wire,
                   sv_limited, sv_app_calls, sv_permits, sv_shutdown_event,
                   sv_shutdown_pc, sv_gate, ipfvars, rlvars>>

\* one turn of the loop of handle_client.  handle_request invokes the
\* application or not and closes the writer; the loop goes on when the
\* request asked for keep-alive, and every other end of the turn (another
\* Connection header, the timeout, a reset, an error) breaks out of it.
ConnRequest(c, invoked, again) ==
    /\ sv_pc[c] = "serving"
    /\ LoopGoesOn
    /\ sv_app_calls[c] + invoked <= MaxCycles
    /\ sv_app_calls' = [sv_app_calls EXCEPT ![c] = @ + invoked]
    /\ sv_gate' = [sv_gate EXCEPT ![c].read = TRUE]
    /\ IF again
       THEN /\ sv_closed' = [sv_closed EXCEPT ![c] = TRUE]
            /\ UNCHANGED <<sv_pc, sv_active>>
       ELSE ConnFinally(c)
    /\ UNCHANGED <<sv_started, sv_rate_limit, sv_ip, sv_outcome, sv_wire,
                   sv_limited, sv_permits, sv_shutdown_event, sv_shutdown_pc,
                   ipfvars, rlvars>>

\* the task of the connection is cancelled while it awaits handle_request:
\* CancelledError passes the except clauses and the finally clause runs
ConnCancelled(c) ==
    /\ sv_pc[c] = "serving"
    /\ ConnFinally(c)
    /\ UNCHANGED <<sv_started, sv_rate_limit, sv_ip, sv_outcome, sv_wire,
                   sv_limited, sv_app_calls, sv_permits, sv_shutdown_event,
                   sv_shutdown_pc, sv_gate, ipfvars, rlvars>>

\* "await writer.wait_closed()" of the finally clause ends, by returning,
\* raising or cancellation, and "async with" releases the permit
ConnRelease(c) ==
    /\ sv_pc[c] = "closing"
    /\ sv_permits' = sv_permits + 1
    /\ sv_pc' = [sv_pc EXCEPT ![c] = "closed"]
    /\ UNCHANGED <<sv_started, sv_rate_limit, sv_ip, sv_outcome, sv_wire,
                   sv_closed, sv_limited, sv_app_calls, sv_active,
                   sv_shutdown_event, sv_shutdown_pc, sv_gate, ipfvars,
                   rlvars>>

\* WSGIServer.shutdown(timeout): the event is set, then "if self._server:"
\* raises AttributeError, since no code assigns self._server; the wait for
\* the active connections and their cancellation are never reached
ServerShutdown ==
    /\ sv_started
    /\ sv_shutdown_pc = "idle"
    /\ sv_shutdown_event' = TRUE
    /\ sv_shutdown_pc' = "raised"
    /\ UNCHANGED <<sv_started, sv_rate_limit, sv_pc, sv_ip, sv_outcome,
                   sv_wire, sv_closed, sv_limited, sv_app_calls, sv_permits,
                   sv_active, sv_gate, ipfvars, rlvars>>

ServerNext ==
    \/ \E cfg \in FilterConfigs, rate_limit \in BOOLEAN :
           Construct(cfg, rate_limit)
    \/ \E c \in Conns, ip \in PeerIPs : HandleClient(c, ip)
    \/ \E c \in Conns : Admitted(c)
    \/ \E c \in Conns : ConnLoopExit(c)
    \/ \E c \in Conns, invoked \in {0, 1}, again \in BOOLEAN :
           ConnRequest(c, invoked, again)
    \/ \E c \in Conns : ConnCancelled(c)
    \/ \E c \in Conns : ConnRelease(c)
    \/ ServerShutdown

(***************************************************************************)
(*                           Specifications                                *)
(***************************************************************************)
vars == <<h2vars, chvars, wsvars, hrvars, plvars, ipfvars, rlvars, svvars,
          corsvars, srvars, kavars>>

\* The state after construction: HTTP2Connection.__init__,
\* ConnectionHandler.__init__ with the first lines of handle_connection,
\* a connection accepted by WSGIServer, and PipelineHandler.__init__
Init ==
    /\ h2_pc = "start"
    /\ streams = <<>>
    /\ settings = InitialSettings
    /\ h2_sent = <<>>
    /\ h2_preface = FALSE
    /\ h2_writer_closed = FALSE
    /\ h2_eof = FALSE
    /\ h2_frames = 0
    /\ h2_completions = [s \in StreamIds |-> 0]
    /\ h2_last = [kind |-> "none"]
    /\ h2_goaway = [received |-> FALSE, streams |-> {}]
    /\ h2_calls = 0
    /\ ch_pc = "top"
    /\ keep_alive = TRUE
    /\ requests_handled = 0
    /\ shutdown_event = FALSE
    /\ ch_writer_closed = FALSE
    /\ ch_wire = <<>>
    /\ ch_request = [method |-> "none", path |-> "none"]
    /\ ch_resp_start = 0
    /\ ch_outcome = "none"
    /\ w_pc = "idle"
    /\ w_idx = 0
    /\ w_started = NotStarted
    /\ pending = <<>>
    /\ q = <<>>
    /\ app_calls = 0
    /\ close_calls = 0
    /\ ch_read = [calls |-> 0, result |-> "none", read |-> CompleteRead,
                  wire_before |-> 0, after_close |-> FALSE,
                  after_shutdown |-> FALSE]
    /\ ws_pc = "accept"
    /\ ws_shutdown = FALSE
    /\ ws_active = FALSE
    /\ ws_writer_closed = FALSE
    /\ ws_wire = <<>>
    /\ ws_headers = <<>>
    /\ ws_reads = 0
    /\ ws_last = [kind |-> "none"]
    /\ hr_pc = "ready"
    /\ hr_wire = <<>>
    /\ hr_writer_closed = FALSE
    /\ hr_last = [kind |-> "none"]
    /\ ip_filter = NewIPFilter
    /\ ipf_adds = 0
    /\ ipf_last = [kind |-> "none"]
    /\ rate_limiter = NewRateLimiter(3, 2, 3, 2, 0)
    /\ rl_now = 0
    /\ rl_seen = [ip \in ClientIPs |-> NotSeen]
    /\ sv_started = FALSE
    /\ sv_rate_limit = FALSE
    /\ sv_pc = [c \in Conns |-> "idle"]
    /\ sv_ip = [c \in Conns |-> "none"]
    /\ sv_outcome = [c \in Conns |-> "none"]
    /\ sv_wire = [c \in Conns |-> <<>>]
    /\ sv_closed = [c \in Conns |-> FALSE]
    /\ sv_limited = [c \in Conns |-> 0]
    /\ sv_app_calls = [c \in Conns |-> 0]
    /\ sv_permits = max_connections
    /\ sv_active = {}
    /\ sv_shutdown_event = FALSE
    /\ sv_shutdown_pc = "idle"
    /\ sv_gate = [c \in Conns |-> [late |-> FALSE, read |-> FALSE]]
    /\ cors_last = [kind |-> "none"]
    /\ sr_handler = "wsgi"
    /\ sr_pc = "app"
    /\ sr_started = WsgiNotStarted
    /\ sr_calls = 0
    /\ sr_first = NotStarted
    /\ sr_last = [kind |-> "none"]
    /\ sr_response = NotStarted
    /\ pl_pc = "reading"
    /\ pl_wire = <<>>
    /\ pl_received = 0
    /\ pl_bursts = 0
    /\ pl_fragment = FALSE
    /\ ka_pc = "idle"
    /\ ka_reader = ConnectionReader(FALSE)
    /\ ka_stream = <<>>
    /\ ka_eof = FALSE
    /\ ka_sent = 0
    /\ ka_requests_handled = 0
    /\ ka_served = <<>>
    /\ ka_writer_closed = FALSE
    /\ ka_exit = "none"

SpecH2 ==
    /\ Init
    /\ [][H2Next /\ UNCHANGED <<kavars, chvars, wsvars, hrvars, plvars, ipfvars, rlvars, svvars, corsvars, srvars>>]_vars

SpecH2Api ==
    /\ Init
    /\ [][H2ApiNext /\ UNCHANGED <<kavars, chvars, wsvars, hrvars, plvars, ipfvars, rlvars, svvars, corsvars, srvars>>]_vars

SpecFast ==
    /\ Init
    /\ [][FastNext /\ UNCHANGED <<kavars, h2vars, wsvars, hrvars, plvars, ipfvars, rlvars, svvars, corsvars, srvars>>]_vars

SpecWSGI ==
    /\ Init
    /\ [][WsNext /\ UNCHANGED <<kavars, h2vars, chvars, hrvars, plvars, ipfvars, rlvars, svvars, corsvars, srvars>>]_vars

SpecHandler ==
    /\ Init
    /\ [][HandlerNext /\ UNCHANGED <<kavars, h2vars, chvars, wsvars, plvars, ipfvars, rlvars, svvars, corsvars, srvars>>]_vars

SpecIPFilter ==
    /\ Init
    /\ [][FilterNext
           /\ UNCHANGED <<kavars, h2vars, chvars, wsvars, hrvars, plvars, rlvars, svvars, corsvars, srvars>>]_vars

SpecRateLimiter ==
    /\ Init
    /\ [][LimiterNext
           /\ UNCHANGED <<kavars, h2vars, chvars, wsvars, hrvars, plvars, ipfvars, svvars, corsvars, srvars>>]_vars

SpecServer ==
    /\ Init
    /\ [][ServerNext /\ UNCHANGED <<kavars, h2vars, chvars, wsvars, hrvars, plvars, corsvars, srvars>>]_vars

SpecCORS ==
    /\ Init
    /\ [][CorsNext
           /\ UNCHANGED <<kavars, h2vars, chvars, wsvars, hrvars, plvars, ipfvars,
                          rlvars, svvars, srvars>>]_vars

SpecStartResponse ==
    /\ Init
    /\ [][StartResponseNext
           /\ UNCHANGED <<kavars, h2vars, chvars, wsvars, hrvars, plvars, ipfvars,
                          rlvars, svvars, corsvars>>]_vars

SpecPipe ==
    /\ Init
    /\ [][PipeNext /\ UNCHANGED <<kavars, h2vars, chvars, wsvars, hrvars, ipfvars, rlvars, svvars, corsvars, srvars>>]_vars

SpecKeepAlive ==
    /\ Init
    /\ [][KeepAliveNext /\ UNCHANGED <<h2vars, chvars, wsvars, hrvars, plvars, ipfvars, rlvars, svvars, corsvars, srvars>>]_vars

(***************************************************************************)
(*                               Claims                                    *)
(***************************************************************************)

\* the response WSGIHandler wrote for the last request has the header
ResponseHasHeader(response, lower_name, lower_value) ==
    \E i \in 1..Len(response.headers) :
        /\ Lower(response.headers[i][1]) = lower_name
        /\ Lower(response.headers[i][2]) = lower_value

\* C1: after WSGIServer.handle_client has answered a valid HTTP/1.1 request
\* that carries Connection: keep-alive or no Connection header, the writer is
\* not closed, and a request read next on the connection is answered too.
C1_KeepAliveStaysOpen ==
    /\ (/\ ws_last.kind = "handled"
        /\ ws_last.path = "app"
        /\ ws_last.sent
        /\ ws_last.input.version = "HTTP/1.1"
        /\ Lower(EnvironGet(ws_last.input.headers, "HTTP_CONNECTION",
                            "keep-alive")) = "keep-alive")
       => ~ws_writer_closed
    /\ (ws_last.kind = "handled" /\ ws_reads > 1) => ws_last.sent

\* C2: the response to a request that carries Connection: close contains a
\* Connection: close header, whatever the application returned, and
\* handle_client has closed the connection after writing it.
C2_ConnectionClose ==
    (/\ ws_last.kind = "handled"
     /\ ws_last.input.kind = "request"
     /\ ws_last.sent
     /\ Lower(EnvironGet(ws_last.input.headers, "HTTP_CONNECTION", "")) = "close")
    => /\ ResponseHasHeader(ws_last.response, "connection", "close")
       /\ ws_pc = "closed"
       /\ ws_writer_closed

\* C3: PipelineHandler has written exactly one response for every complete
\* request received so far, in the order the requests arrived, and goes on
\* reading the connection.
C3_PipelineOrder ==
    /\ Len(pl_wire) = pl_received
    /\ \A i \in 1..Len(pl_wire) : pl_wire[i].id = i

\* C4: a stream's request is completed by a DATA frame with END_STREAM at
\* most once, and a stream in half_closed_remote has received HEADERS.
C4_EndStreamOnce ==
    /\ \A s \in StreamIds : h2_completions[s] <= 1
    /\ \A s \in DOMAIN streams :
          streams[s].state = "half_closed_remote" => streams[s].headers # None

\* C5: once HEADERS on stream 1 and then DATA with END_STREAM on stream 1 have
\* been processed, the request of stream 1 was handed over exactly once and a
\* HEADERS frame followed by a DATA frame has been sent on stream 1.
C5_ResponseOnStream1 ==
    (/\ h2_last.kind = "frame"
     /\ h2_last.frame.type = DATA
     /\ h2_last.frame.stream_id = 1
     /\ HasFlag(h2_last.frame.flags, END_STREAM)
     /\ 1 \in DOMAIN streams
     /\ h2_completions[1] = 1)
    => \E i, j \in 1..Len(h2_sent) :
          /\ i < j
          /\ h2_sent[i].type = HEADERS /\ h2_sent[i].stream_id = 1
          /\ h2_sent[j].type = DATA /\ h2_sent[j].stream_id = 1

\* C6: a SETTINGS frame with the ACK flag leaves the settings table as it
\* was; with a non-empty payload it is answered by exactly one frame, a GOAWAY
\* carrying PROTOCOL_ERROR (so no SETTINGS ACK is sent), and _process_frame
\* reports failure; with an empty payload nothing is sent.
C6_SettingsAckPayload ==
    (/\ h2_last.kind = "frame"
     /\ h2_last.frame.type = SETTINGS
     /\ HasFlag(h2_last.frame.flags, ACK))
    => /\ settings = h2_last.settings_before
       /\ IF SettingsPayloadLen(h2_last.frame.payload) > 0
          THEN /\ Len(h2_sent) = h2_last.sent_before + 1
               /\ h2_sent[Len(h2_sent)].type = GOAWAY
               /\ h2_sent[Len(h2_sent)].payload[2] = PROTOCOL_ERROR
               /\ ~h2_last.result
          ELSE /\ Len(h2_sent) = h2_last.sent_before
               /\ h2_last.result

\* a SETTINGS ACK frame with a non-empty payload arrived after an earlier
\* SETTINGS frame had changed the table, and was answered with GOAWAY
C6_Witness ==
    /\ h2_last.kind = "frame"
    /\ h2_last.frame.type = SETTINGS
    /\ HasFlag(h2_last.frame.flags, ACK)
    /\ SettingsPayloadLen(h2_last.frame.payload) > 0
    /\ Len(h2_last.frame.payload.pairs) > 0
    /\ settings # InitialSettings
    /\ h2_sent[Len(h2_sent)].type = GOAWAY

\* what the handler has written for the request in progress
ResponseWritten == SubSeq(ch_wire, ch_resp_start + 1, Len(ch_wire))

\* the executor thread is finished and all it pushed has been taken
WorkerDrained == w_pc = "done" /\ pending = <<>> /\ q = <<>>

\* C7: for an application that yields non-empty chunks and does not fail,
\* once the executor has finished and the queue is drained the handler has
\* written the header block, every chunk once and in order as
\* <hex-length>\r\n<bytes>\r\n, and then the terminator 0\r\n\r\n once.
C7_ChunkedStreaming ==
    (/\ ch_request.path = "/"
     /\ ch_request.app.fail = "none"
     /\ Len(ch_request.app.chunks) > 0
     /\ \A i \in 1..Len(ch_request.app.chunks) : ch_request.app.chunks[i].len > 0
     /\ WorkerDrained)
    => ResponseWritten =
         <<HeaderBlock>> \o Frames(ch_request.app.chunks) \o <<LastChunk>>

\* C8: when the iteration of the application's iterable has ended, by
\* exhaustion or by an exception, its close() has been called exactly once
\* (executor thread of ConnectionHandler, and WSGIHandler._call_wsgi_app).
C8_CloseOnce ==
    /\ (/\ ch_request.path = "/"
        /\ ch_request.app.has_close
        /\ ch_request.app.fail # "call"
        /\ w_pc = "done")
       => close_calls = 1
    /\ (/\ ws_last.kind = "handled"
        /\ ws_last.path = "app"
        /\ ws_last.app.has_close)
       => ws_last.close_calls = 1

\* C9: when the iterable raised after the header block was written, the
\* terminator 0\r\n\r\n is not written and the connection is closed.
C9_AbortAfterHeaders ==
    (/\ ch_request.path = "/"
     /\ ch_request.app.fail = "iter"
     /\ WorkerDrained
     /\ ResponseWritten # <<>>
     /\ ResponseWritten[1] = HeaderBlock)
    => /\ ResponseWritten[Len(ResponseWritten)] # LastChunk
       /\ ch_pc = "closed"
       /\ ch_writer_closed

\* C10: when the application raises before start_response, the response
\* WSGIHandler writes is the same whatever the exception message is, and
\* the message is not in it.
C10_GenericError ==
    (ws_last.kind = "handled" /\ ws_last.path = "app_raised")
    => /\ \A m \in ExceptionMessages :
            HandleRequest(ws_last.input, [ws_last.app EXCEPT !.message = m],
                          <<>>).response = ws_last.response
       /\ ws_last.response.body # <<ws_last.app.message>>

\* the data of the chunk frames among the items of a piece of wire
RECURSIVE WireChunks(_)
WireChunks(wire) ==
    IF wire = <<>> THEN <<>>
    ELSE IF Head(wire).kind = "chunk"
    THEN <<Head(wire).data>> \o WireChunks(Tail(wire))
    ELSE WireChunks(Tail(wire))

\* the non-empty chunks of a chunk list
RECURSIVE NonEmpty(_)
NonEmpty(parts) ==
    IF parts = <<>> THEN <<>>
    ELSE IF Head(parts).len = 0 THEN NonEmpty(Tail(parts))
    ELSE <<Head(parts)>> \o NonEmpty(Tail(parts))

\* C11: for a GET request without body that _process_wsgi_request answered
\* completely, the application was invoked exactly once, the header block on
\* the wire carries the status line and every header the application passed
\* to start_response, and the body bytes the application returned follow.
C11_VerbatimResponse ==
    (/\ ch_outcome = "completed"
     /\ ch_request.method = "GET"
     /\ ch_request.app.fail = "none")
    => LET written == SubSeq(ch_wire, ch_resp_start + 1, Len(ch_wire))
           head == written[1]
       IN /\ app_calls = 1
          /\ head.kind = "head"
          /\ head.status_line = w_started.status
          /\ \A i \in 1..Len(w_started.headers) :
                \E j \in 1..Len(head.headers) :
                    head.headers[j] = w_started.headers[i]
          /\ WireChunks(written) = NonEmpty(ch_request.app.chunks)

\* handle_request was called on a request (not on an empty reader)
HandledRequest ==
    /\ hr_last.kind = "handled"
    /\ hr_last.input.kind = "request"

\* C12: what WSGIHandler writes for a HEAD request is the status line and
\* header block it writes for the same request sent as GET with the same
\* application run, and no body bytes.
C12_HeadLikeGet ==
    (HandledRequest /\ hr_last.input.method = "HEAD")
    => LET as_get == [hr_last.input EXCEPT !.method = "GET"]
           get == HandleRequest(as_get, hr_last.app, <<>>).response
       IN /\ hr_wire = <<hr_last.response>>
          /\ hr_last.response.status_line = get.status_line
          /\ hr_last.response.headers = get.headers
          /\ hr_last.response.body = <<>>

\* the request declares a Content-Length that, added to the length of its
\* header block, exceeds MAX_REQUEST_SIZE
DeclaresTooMuch(input) ==
    \E i \in 1..Len(input.headers) :
        /\ Lower(input.headers[i][1]) = "content-length"
        /\ ParseInt(input.headers[i][2]).ok
        /\ input.head_len + ParseInt(input.headers[i][2]).value
              > MAX_REQUEST_SIZE

\* C13: a request whose declared Content-Length plus header block length
\* exceeds MAX_REQUEST_SIZE is answered with a 400 response, the writer is
\* closed, and the application is not invoked.
C13_BodyTooLarge ==
    (HandledRequest /\ DeclaresTooMuch(hr_last.input))
    => /\ hr_wire = <<hr_last.response>>
       /\ hr_last.response.status_line = "HTTP/1.1 400 Bad Request"
       /\ hr_writer_closed
       /\ hr_last.app_calls = 0

\* a request just over the limit (41 + 1048536 = 1048577) was refused
C13_Witness ==
    /\ HandledRequest
    /\ DeclaresTooMuch(hr_last.input)
    /\ DeclaredLength(hr_last.input.headers) = "1048536"
    /\ hr_last.input.head_len = 41
    /\ hr_last.response.body = <<"Request body too large">>
    /\ hr_writer_closed

\* C14: for POST, PUT and PATCH, a request whose Content-Length equals the
\* number of body bytes received reaches the application with wsgi.input
\* holding exactly those bytes; one whose declared Content-Length differs
\* from the number of body bytes received is answered with 400 and the
\* application is not invoked.
C14_ContentLengthMatch ==
    (/\ HandledRequest
     /\ hr_last.input.method \in {"POST", "PUT", "PATCH"}
     /\ DeclaredLength(hr_last.input.headers) # None
     /\ ~DeclaresTooMuch(hr_last.input))
    => LET declared == ParseInt(DeclaredLength(hr_last.input.headers))
           received == ReadRequest(hr_last.input).body
       IN IF declared.ok /\ declared.value = Len(received)
          THEN /\ hr_last.app_calls = 1
               /\ hr_last.environ.REQUEST_METHOD = hr_last.input.method
               /\ hr_last.environ.wsgi_input = received
          ELSE /\ hr_last.response.status_line = "HTTP/1.1 400 Bad Request"
               /\ hr_last.app_calls = 0

\* an entry of the whitelist (address or network) covers the address
Whitelisted(f, address) ==
    \/ address \in f.whitelist_ips
    \/ \E i \in 1..Len(f.whitelist_networks) :
          InNetwork(address, f.whitelist_networks[i])

\* an entry of the blacklist (address or network) covers the address
Blacklisted(f, address) ==
    \/ address \in f.blacklist_ips
    \/ \E i \in 1..Len(f.blacklist_networks) :
          InNetwork(address, f.blacklist_networks[i])

\* C20: is_allowed(ip) rejects every string that is not an IP address; with
\* a whitelist entry present it returns True exactly for the addresses the
\* whitelist covers, whatever the blacklist holds; with an empty whitelist it
\* returns False exactly for the addresses the blacklist covers.
C20_IPFilter ==
    ipf_last.kind = "call"
    => LET parsed == IpAddress(ipf_last.ip)
           has_whitelist == \/ ipf_last.filter.whitelist_ips # {}
                            \/ ipf_last.filter.whitelist_networks # <<>>
       IN IF ~parsed.ok THEN ipf_last.result = FALSE
          ELSE IF has_whitelist
          THEN ipf_last.result = Whitelisted(ipf_last.filter, parsed.address)
          ELSE ipf_last.result = ~Blacklisted(ipf_last.filter, parsed.address)

\* an address on both lists was let through by the whitelist, and an
\* address covered only by a blacklisted network was refused
C20_Witness ==
    /\ ipf_last.kind = "call"
    /\ ipf_last.ip = "10.0.0.2"
    /\ ipf_last.result
    /\ ipf_last.filter.whitelist_networks = <<"10.0.0.0/24">>
    /\ "10.0.0.2" \in ipf_last.filter.blacklist_ips

\* the tokens held for every tracked address are at least 0 and at most burst
TokensInRange ==
    \A ip \in DOMAIN rate_limiter.tokens :
        /\ rate_limiter.tokens[ip] >= 0
        /\ rate_limiter.tokens[ip] <= rate_limiter.burst * TokenUnit

RECURSIVE TokensSpent(_, _)
TokensSpent(rl, ips) ==
    IF ips = {} THEN 0
    ELSE LET ip == CHOOSE k \in ips : TRUE
         IN (rl.burst * TokenUnit - rl.tokens[ip])
                + TokensSpent(rl, ips \ {ip})

\* the connections whose handle_client ended its checks with outcome o
WithOutcome(o) == {c \in Conns : sv_outcome[c] = o}

\* C15: handle_client consults the IP filter first and the rate limiter
\* second, before the gate.  A connection from an address the IP filter
\* refuses gets the 403 response and nothing else, the rate limiter is not
\* called for it and no token is taken for it; a connection the rate limiter
\* refuses passed the IP filter and gets the 429 response and nothing else;
\* in both cases the application is never invoked, the connection is closed
\* and it never holds a permit of the gate.  A connection in the gate passed
\* both checks.
C15_FilterThenLimiter ==
    /\ \A c \in Conns :
        /\ (/\ sv_outcome[c] \notin {"none", "shutdown"}
            /\ ~IPFilterIsAllowed(ip_filter, sv_ip[c]))
           => /\ sv_outcome[c] = "403"
              /\ sv_wire[c] = <<Forbidden403>>
              /\ sv_limited[c] = 0
              /\ sv_app_calls[c] = 0
              /\ sv_closed[c]
              /\ sv_pc[c] = "closed"
        /\ sv_outcome[c] = "429"
           => /\ IPFilterIsAllowed(ip_filter, sv_ip[c])
              /\ sv_limited[c] = 1
              /\ sv_wire[c] = <<TooMany429>>
              /\ sv_app_calls[c] = 0
              /\ sv_closed[c]
              /\ sv_pc[c] = "closed"
        /\ sv_outcome[c] = "gate"
           => /\ IPFilterIsAllowed(ip_filter, sv_ip[c])
              /\ sv_limited[c] = (IF sv_rate_limit THEN 1 ELSE 0)
              /\ sv_wire[c] = <<>>
    /\ (sv_started /\ sv_rate_limit)
       => /\ DOMAIN rate_limiter.tokens
               = {sv_ip[c] : c \in WithOutcome("gate") \cup WithOutcome("429")}
          /\ TokensSpent(rate_limiter, DOMAIN rate_limiter.tokens)
               = TokenUnit * Cardinality(WithOutcome("gate"))

\* one connection was refused by the IP filter, one by the rate limiter, and
\* one went through the gate and had the application invoked
C15_Witness ==
    /\ sv_started /\ sv_rate_limit
    /\ \E c1, c2, c3 \in Conns :
        /\ sv_outcome[c1] = "403" /\ sv_wire[c1] = <<Forbidden403>>
        /\ sv_outcome[c2] = "429" /\ sv_wire[c2] = <<TooMany429>>
        /\ sv_outcome[c3] = "gate" /\ sv_app_calls[c3] = 1
        /\ sv_ip[c2] = sv_ip[c3]

\* the connections that hold a permit of the gate
InGate == {c \in Conns : sv_pc[c] \in {"serving", "closing"}}

\* C16: _active_connections never holds more than max_connections tasks,
\* under any interleaving.  It holds exactly the connections that are being
\* served; a connection that went through the gate and ended, by whatever
\* path, is no longer in it and has given its permit back: the permits left
\* and the permits held always add up to max_connections.
C16_GateBound ==
    /\ Cardinality(sv_active) <= max_connections
    /\ sv_active = {c \in Conns : sv_pc[c] = "serving"}
    /\ sv_permits >= 0
    /\ sv_permits + Cardinality(InGate) = max_connections
    /\ \A c \in Conns : sv_pc[c] = "closed" => c \notin sv_active

\* a connection went through the gate and ended with its permit given back,
\* and the gate is full again with the connections admitted since
C16_Witness ==
    /\ Cardinality(sv_active) = max_connections
    /\ sv_permits = 0
    /\ \E c \in Conns : sv_outcome[c] = "gate" /\ sv_pc[c] = "closed"

\* C17: when the call of shutdown(timeout) has ended, the shutdown event is
\* set, the call has returned, and no connection task is active any more
C17_GracefulShutdown ==
    sv_shutdown_pc # "idle"
    => /\ sv_shutdown_event
       /\ sv_shutdown_pc = "returned"
       /\ sv_active = {}

\* C18: handle_http2_connection always ends with the writer closed: once the
\* peer has closed the connection (end of file while a frame header is read)
\* or a read has raised, the handler has stopped reading frames and has
\* closed the writer
C18_ClosedAtEndOfInput ==
    (h2_eof \/ h2_pc = "closed")
    => /\ h2_pc = "closed"
       /\ h2_writer_closed

\* the values of the headers called name in a header list
HeaderValues(headers, name) ==
    {headers[i][2] : i \in {j \in 1..Len(headers) : headers[j][1] = name}}

\* the call was made with one specific origin configured, credentials
\* allowed, and no request environ
SingleOriginNoEnviron ==
    /\ cors_last.kind = "call"
    /\ Len(cors_last.given_origins) = 1
    /\ cors_last.given_origins[1] \notin {AnyOrigin, <<"*", ".example.com">>}
    /\ cors_last.cors_config.allow_credentials
    /\ DOMAIN cors_last.environ = {}

\* C21: apply_cors_headers with a CORSConfig of one specific allowed origin
\* and allow_credentials=True, and without a request environ, returns
\* headers with Access-Control-Allow-Origin equal to the configured origin
\* and with Access-Control-Allow-Credentials: true
C21_CustomCorsHeaders ==
    SingleOriginNoEnviron
    => /\ HeaderValues(cors_last.result, "Access-Control-Allow-Origin")
            = {cors_last.given_origins[1]}
       /\ HeaderValues(cors_last.result, "Access-Control-Allow-Credentials")
            = {<<"true">>}

\* the last step processed a DATA frame
DataFrameProcessed ==
    /\ h2_last.kind = "frame"
    /\ h2_last.frame.type = DATA

\* C22: a DATA frame whose stream id is not in the stream map, or whose
\* stream is in state closed, is answered with exactly one frame, RST_STREAM
\* on that stream id with PROTOCOL_ERROR; the stream map is as it was (no
\* payload appended, no stream created), and the connection goes on
C22_DataOnUnknownOrClosed ==
    (/\ DataFrameProcessed
     /\ \/ h2_last.frame.stream_id \notin DOMAIN h2_last.streams_before
        \/ h2_last.streams_before[h2_last.frame.stream_id].state = "closed")
    => /\ Len(h2_sent) = h2_last.sent_before + 1
       /\ h2_sent[Len(h2_sent)]
            = RstStreamFrame(h2_last.frame.stream_id, PROTOCOL_ERROR)
       /\ streams = h2_last.streams_before
       /\ h2_pc = "running"
       /\ h2_last.result

\* the last step processed a HEADERS frame whose block decoded, for a stream
\* id that was not in the map
HeadersOnNewStream ==
    /\ h2_last.kind = "frame"
    /\ h2_last.frame.type = HEADERS
    /\ h2_last.frame.payload = "valid"
    /\ h2_last.frame.stream_id \notin DOMAIN h2_last.streams_before

\* C23: a HEADERS frame for a stream id not yet in the map creates the stream
\* and moves it from idle to open; when the frame carries END_STREAM the
\* stream moves on to half_closed_remote and the request is complete (it was
\* handed over once) without a DATA frame
C23_HeadersOpensStream ==
    HeadersOnNewStream
    => LET s == h2_last.frame.stream_id
       IN /\ s \in DOMAIN streams
          /\ IF HasFlag(h2_last.frame.flags, END_STREAM)
             THEN /\ streams[s].state = "half_closed_remote"
                  /\ h2_completions[s] = 1
             ELSE /\ streams[s].state = "open"
                  /\ h2_completions[s] = 0

\* the last step processed a SETTINGS frame
SettingsFrameProcessed ==
    /\ h2_last.kind = "frame"
    /\ h2_last.frame.type = SETTINGS

\* the bounds the protocol puts on the value of a setting: ENABLE_PUSH is 0
\* or 1, INITIAL_WINDOW_SIZE at most 2^31 - 1, MAX_FRAME_SIZE between 2^14
\* and 2^24 - 1
WithinProtocolBounds(pair) ==
    /\ pair[1] = 2 => pair[2] \in {<<0, 0>>, <<0, 1>>}
    /\ pair[1] = 4 => pair[2][1] < 32768
    /\ pair[1] = 5 => /\ pair[2][1] <= 255
                      /\ pair[2][1] * 65536 + pair[2][2] >= 16384

\* the value the pairs give to the setting called name: that of the last
\* pair with this name, or otherwise when no pair has it
RECURSIVE LastValue(_, _, _)
LastValue(pairs, name, otherwise) ==
    IF pairs = <<>> THEN otherwise
    ELSE IF SettingName(pairs[Len(pairs)][1]) = name
    THEN pairs[Len(pairs)][2]
    ELSE LastValue(SubSeq(pairs, 1, Len(pairs) - 1), name, otherwise)

\* the frames sent while the last frame was processed
SentInReply == SubSeq(h2_sent, h2_last.sent_before + 1, Len(h2_sent))

\* C24: for a SETTINGS frame without ACK whose length is a multiple of 6 and
\* whose values are within the protocol bounds, every (id, value) pair is in
\* the settings table afterwards, the other settings are as before, and the
\* reply is exactly one SETTINGS frame with ACK and an empty payload; no
\* SETTINGS ACK is sent in reply to a SETTINGS ACK frame or to a SETTINGS
\* frame that was rejected
C24_SettingsStoredAndAcked ==
    SettingsFrameProcessed
    => LET data == h2_last.frame.payload
           before == h2_last.settings_before
       IN IF /\ ~HasFlag(h2_last.frame.flags, ACK)
             /\ data.rest = 0
             /\ \A i \in 1..Len(data.pairs) : WithinProtocolBounds(data.pairs[i])
          THEN /\ DOMAIN settings
                    = DOMAIN before
                        \cup {SettingName(data.pairs[i][1]) :
                                 i \in 1..Len(data.pairs)}
               /\ \A n \in DOMAIN settings :
                     settings[n] = LastValue(data.pairs, n,
                                             IF n \in DOMAIN before
                                             THEN before[n] ELSE <<0, 0>>)
               /\ SentInReply = <<Frame(0, SETTINGS, ACK, <<>>)>>
               /\ h2_last.result
          ELSE \A i \in 1..Len(SentInReply) :
                  ~(/\ SentInReply[i].type = SETTINGS
                    /\ HasFlag(SentInReply[i].flags, ACK))

\* a SETTINGS frame with two valid pairs was stored and acknowledged after an
\* earlier SETTINGS frame had been rejected with GOAWAY
C24_Witness ==
    /\ SettingsFrameProcessed
    /\ ~HasFlag(h2_last.frame.flags, ACK)
    /\ h2_last.frame.payload.rest = 0
    /\ Len(h2_last.frame.payload.pairs) = 2
    /\ h2_last.result
    /\ settings.max_concurrent_streams = <<0, 50>>
    /\ settings.header_table_size = <<0, 0>>
    /\ SentInReply = <<Frame(0, SETTINGS, ACK, <<>>)>>
    /\ \E i \in 1..h2_last.sent_before : h2_sent[i].type = GOAWAY

\* C25: when a frame header declares a length above the current
\* max_frame_size, the connection is terminated (the handler has stopped and
\* the writer is closed) and the one frame sent in reply is a GOAWAY carrying
\* PROTOCOL_ERROR
C25_OversizedFrame ==
    (h2_last.kind = "raised" /\ h2_last.length > 0)
    => /\ h2_pc = "closed"
       /\ h2_writer_closed
       /\ SentInReply = <<GoawayFrame(streams, PROTOCOL_ERROR)>>

\* the error code a GOAWAY frame carries
GoawayCode(frame) == frame.payload[2]

\* C26: every failure while a frame is read or processed ends in a
\* RST_STREAM or in a GOAWAY whose error code is PROTOCOL_ERROR or
\* INTERNAL_ERROR; a failure of the read that is not a protocol violation
\* (the transport failed) closes the connection with INTERNAL_ERROR
C26_FailuresRecovered ==
    /\ (h2_last.kind = "frame" /\ ~h2_last.result
                               /\ h2_last.frame.type # GOAWAY)
       => /\ SentInReply # <<>>
          /\ \A i \in 1..Len(SentInReply) :
                \/ SentInReply[i].type = RST_STREAM
                \/ /\ SentInReply[i].type = GOAWAY
                   /\ GoawayCode(SentInReply[i])
                        \in {PROTOCOL_ERROR, INTERNAL_ERROR}
    /\ h2_last.kind = "raised"
       => /\ Len(SentInReply) = 1
          /\ SentInReply[1].type = GOAWAY
          /\ GoawayCode(SentInReply[1]) \in {PROTOCOL_ERROR, INTERNAL_ERROR}
          /\ h2_last.length = 0
             => /\ GoawayCode(SentInReply[1]) = INTERNAL_ERROR
                /\ h2_pc = "closed"

\* C27: after a RST_STREAM frame for a stream has been processed the stream
\* is no longer in the stream map, and no stream of the map is in state
\* closed
C27_ResetStreamRemoved ==
    /\ (h2_last.kind = "frame" /\ h2_last.frame.type = RST_STREAM)
       => h2_last.frame.stream_id \notin DOMAIN streams
    /\ \A s \in DOMAIN streams : streams[s].state # "closed"

\* C28: after a GOAWAY frame has been received no stream is created: the
\* stream map holds no stream id it did not hold when the GOAWAY was read
C28_NoStreamAfterGoaway ==
    h2_goaway.received => DOMAIN streams \subseteq h2_goaway.streams

\* the last step was a call of push_promise
PushPromiseCalled ==
    /\ h2_last.kind = "call"
    /\ h2_last.op = "push_promise"

\* C29: push_promise succeeds only when the initiating stream is open: it
\* then sends exactly one PUSH_PROMISE frame on the initiating stream and the
\* promised stream id it names is in the stream map in state reserved_remote,
\* the other streams being as before; on a stream in any other state it
\* raises, sends no frame and leaves the stream map unchanged
C29_PushPromise ==
    PushPromiseCalled
    => LET before == h2_last.streams_before
           s == h2_last.stream_id
       IN IF before[s].state = "open"
          THEN /\ ~h2_last.raised
               /\ Len(SentInReply) = 1
               /\ SentInReply[1].type = PUSH_PROMISE
               /\ SentInReply[1].stream_id = s
               /\ LET promised == SentInReply[1].payload[1]
                  IN /\ DOMAIN streams = DOMAIN before \cup {promised}
                     /\ streams[promised].state = "reserved_remote"
                     /\ streams[promised].stream_id = promised
                     /\ \A i \in DOMAIN before \ {promised} :
                           streams[i] = before[i]
          ELSE /\ h2_last.raised
               /\ SentInReply = <<>>
               /\ streams = before

\* push_promise was called on stream 1 after its request was complete and
\* raised, an earlier call on open stream 3 having registered stream 2
C29_Witness ==
    /\ PushPromiseCalled
    /\ h2_last.raised
    /\ h2_last.stream_id = 1
    /\ streams[1].state = "half_closed_remote"
    /\ 2 \in DOMAIN streams
    /\ streams[2].state = "reserved_remote"
    /\ \E i \in 1..Len(h2_sent) : h2_sent[i].type = PUSH_PROMISE
    /\ SentInReply = <<>>

\* C30: once start_response has been called for a request, a further call
\* without exc_info is rejected as an error and the status and headers stay
\* those of the first call, in the closure and in the response built
C30_StartResponseFrozen ==
    (/\ sr_calls >= 2
     /\ sr_last.kind = "call"
     /\ ~sr_last.exc_info)
    => /\ sr_last.raised
       /\ sr_started = sr_first
       /\ sr_pc = "done" => sr_response \in {ErrorHead, sr_first}

\* the status lines of a client-error response
ClientErrorStatuses ==
    {"400 Bad Request", "408 Request Timeout", "413 Payload Too Large",
     "414 URI Too Long", "431 Request Header Fields Too Large"}

\* the last call of _read_request was refused for its size or its syntax
ReadRefused ==
    /\ ch_read.result = "nothing"
    /\ \/ ch_read.read.end = "malformed"
       \/ ch_read.read.total_read > header_limit + body_limit
       \/ ch_read.read.body > body_limit

\* what was written to the writer since the last call of _read_request
WrittenSinceRead == SubSeq(ch_wire, ch_read.wire_before + 1, Len(ch_wire))

\* C31: when the body of a request exceeds body_limit, or its total size
\* exceeds header_limit + body_limit, or the parser rejects it as malformed,
\* a client-error (4xx) response has been written by the time the
\* connection is closed, and the application was not invoked for it.
C31_ClientErrorBeforeClose ==
    (ReadRefused /\ ch_writer_closed) =>
        /\ \E i \in DOMAIN WrittenSinceRead :
               /\ WrittenSinceRead[i].kind = "response"
               /\ WrittenSinceRead[i].status_line \in ClientErrorStatuses
        /\ w_pc # "call"

\* C35: after a request whose parsed keep-alive flag is false has been
\* answered, the /health endpoint included, _read_request is not called
\* again on that connection.
C35_NoReadAfterClose == ch_read.calls > 0 => ~ch_read.after_close

\* C36: once the shutdown event is set, the handler begins no further turn
\* of its loop: _read_request is not called again, the application is
\* invoked only for the request of the turn in progress, and a handler at
\* the top of its loop leaves it.
C36_ShutdownEndsLoop ==
    [][shutdown_event =>
          /\ ch_read'.calls = ch_read.calls
          /\ ch_pc \in {"top", "closed"} => app_calls' = app_calls
          /\ ch_pc = "top" => ch_pc' \in {"top", "closed"}]_vars

\* a request was answered, the event was set, and the handler left its loop
\* although the connection was keep-alive with requests to spare
C36_Witness ==
    /\ shutdown_event
    /\ ch_pc = "closed"
    /\ ch_read.calls = 1
    /\ ch_read.result = "request"
    /\ ch_outcome = "completed"
    /\ requests_handled = 1
    /\ keep_alive
    /\ requests_handled < max_requests

\* the header lines with their names in lower case
LowerNames(headers) ==
    [i \in DOMAIN headers |-> <<Lower(headers[i][1]), headers[i][2]>>]

\* two requests that differ at most in the case of their header names
SameUpToNameCase(a, b) ==
    /\ a.kind = "request"
    /\ b.kind = "request"
    /\ [a EXCEPT !.headers = LowerNames(a.headers)]
         = [b EXCEPT !.headers = LowerNames(b.headers)]

\* C32: a request that differs from the handled one only in the case of its
\* header names gets the same status line from handle_request and the same
\* environ.
C32_HeaderNamesCaseInsensitive ==
    hr_last.kind = "handled" =>
        \A other \in WsRequests :
            SameUpToNameCase(hr_last.input, other) =>
                LET r == HandleRequest(other, hr_last.app, <<>>)
                IN /\ r.response.status_line = hr_last.response.status_line
                   /\ r.environ = hr_last.environ

\* the values of the header lines of the given lower-case name, lowered
NamedValues(headers, lower_name) ==
    {Lower(headers[i][2]) : i \in {j \in DOMAIN headers :
                                        Lower(headers[j][1]) = lower_name}}

\* the application answered the handled request and set no Connection header
AnsweredWithoutConnection ==
    /\ hr_last.kind = "handled"
    /\ hr_last.path = "app"
    /\ NamedValues(hr_last.app.headers, "connection") = {}

\* C33: when the application sets no Connection header, the response to an
\* HTTP/1.1 request carries Connection: keep-alive unless the request has
\* Connection: close, and the response to an HTTP/1.0 request carries
\* Connection: close unless the request has Connection: keep-alive.
C33_ConnectionHeader ==
    AnsweredWithoutConnection =>
        LET asked == NamedValues(hr_last.input.headers, "connection")
            sent == NamedValues(hr_last.response.headers, "connection")
        IN /\ hr_last.input.version = "HTTP/1.1" =>
                 sent = IF "close" \in asked THEN {"close"} ELSE {"keep-alive"}
           /\ hr_last.input.version = "HTTP/1.0" =>
                 sent = IF "keep-alive" \in asked THEN {"keep-alive"}
                        ELSE {"close"}

\* an HTTP/1.0 request that asks for keep-alive was answered with it
C33_Witness ==
    /\ AnsweredWithoutConnection
    /\ hr_last.input.version = "HTTP/1.0"
    /\ NamedValues(hr_last.input.headers, "connection") = {"keep-alive"}
    /\ NamedValues(hr_last.response.headers, "connection") = {"keep-alive"}

\* the connections that passed the gate with the shutdown event set
AdmittedLate == {c \in Conns : sv_outcome[c] = "gate" /\ sv_gate[c].late}

\* C34: a connection that passes the admission gate only after the shutdown
\* event is set is abandoned: handle_request is never called for it, the
\* application is not invoked, and its writer is closed when it leaves.
C34_LateAdmissionAbandoned ==
    \A c \in AdmittedLate :
        /\ ~sv_gate[c].read
        /\ sv_app_calls[c] = 0
        /\ sv_wire[c] = <<>>
        /\ sv_pc[c] \in {"serving", "closing", "closed"}
        /\ sv_pc[c] # "serving" => sv_closed[c]

\* a connection waited at the gate, got its permit after shutdown() and was
\* closed, while another connection was served before the event
C34_Witness ==
    \E c, d \in Conns :
        /\ c \in AdmittedLate
        /\ sv_pc[c] = "closed"
        /\ sv_closed[c]
        /\ sv_gate[d].read
        /\ ~sv_gate[d].late

\* the step processes a HEADERS or DATA frame
HeadersOrDataStep ==
    /\ h2_frames' = h2_frames + 1
    /\ h2_last'.kind = "frame"
    /\ h2_last'.frame.type \in {HEADERS, DATA}

\* C38: the state of a stream never moves backwards: a stream that is
\* half_closed_remote or closed is not returned to open or idle by a later
\* HEADERS or DATA frame.
C38_StateNeverBackwards ==
    [][HeadersOrDataStep =>
          \A s \in DOMAIN streams :
              streams[s].state \in {"half_closed_remote", "closed"} =>
                  streams'[s].state \notin {"open", "idle"}]_vars

\* the last step processed a SETTINGS frame that _process_settings refused
SettingsFrameRejected ==
    /\ h2_last.kind = "frame"
    /\ h2_last.frame.type = SETTINGS
    /\ ~h2_last.result

\* C39: a SETTINGS frame that is rejected (length not a multiple of 6, or a
\* value out of range) leaves the settings table exactly as it was before
\* the frame, also when valid settings precede the invalid one in the frame.
C39_RejectedSettingsNoEffect ==
    SettingsFrameRejected => settings = h2_last.settings_before

\* the requests of the client that got a response
Answered == {pl_wire[i].id : i \in DOMAIN pl_wire}

\* C40: PipelineHandler loses no request: when the handler has left its
\* loop, every complete request the client sent has been dispatched and
\* answered, those beyond the cap of 20 per read and those received in two
\* reads included.
C40_NoRequestLost ==
    pl_pc = "done" => \A id \in 1..pl_received : id \in Answered

\* C37: handle_connection serves the requests that arrive on the connection
\* one after another in arrival order until max_requests are served, the
\* client closes, or no first byte of a next request arrives within
\* idle_timeout; when it leaves its loop, for one of these reasons or for an
\* error of the request handler, it has served every request that arrived
\* (up to max_requests) and it closes the writer.
C37_ServesUntilExit ==
    ka_pc = "closed" =>
        /\ ka_writer_closed
        /\ ka_exit \in {"max_requests", "client_closed", "idle_timeout",
                         "handler_error"}
        /\ ka_served = [i \in 1..Len(ka_served) |-> i]
        /\ ka_exit # "handler_error" =>
               Len(ka_served) = IF ka_sent < ka_max_requests THEN ka_sent
                                ELSE ka_max_requests

====
